---- MODULE Spec2Model ----
(***************************************************************************)
(* State-machine model of the patient/provider portal client:             *)
(*   - the sign-in and sign-up forms (validation, auth call, error        *)
(*     mapping, navigation),                                               *)
(*   - the timeline task badge,                                            *)
(*   - the analytics task statistics,                                      *)
(*   - the profiles row-level-security policies,                           *)
(*   - the diagnostic screen's patient RLS test,                           *)
(*   - the provider layout role gate,                                      *)
(*   - the loads of the data screens (timeline, analytics, patient list,   *)
(*     provider dashboard): mount effect, pull to refresh, replies,        *)
(*   - the analytics loaders in parallel and their groupings,               *)
(*   - the patient list's search and region filter,                        *)
(*   - what evaluating the profiles policies reads,                        *)
(*   - the diagnostic screen's runAllTests, testBasicAuth and              *)
(*     testDataManipulation,                                               *)
(*   - the root layout, the index route and the tabs layout,               *)
(*   - the provider dashboard's count of upcoming appointments.            *)
(* Text is modelled as a sequence: form input as a sequence of one-letter  *)
(* strings, messages as a sequence of words.  An object with optional      *)
(* keys (the errors object) is a function whose domain is the set of keys  *)
(* that are present.                                                       *)
(***************************************************************************)
EXTENDS Integers, Sequences, FiniteSets, Bags, TLC

VARIABLES
  screen,          \* the auth route on top: "signIn", "signUp", "tabs", "onboarding"
  email,           \* useState('') of the mounted auth form
  password,        \* useState('')
  confirmPassword, \* useState('') (sign-up form only)
  fullName,        \* useState('') (sign-up form only)
  loading,         \* useState(false) of the mounted auth form
  errors,          \* useState({}) of the mounted auth form
  authPc,          \* position of handleSignIn/handleSignUp: "idle" or "awaiting"
  authCall,        \* the signIn/signUp call in flight, or NoCall
  authResponse,    \* what the last auth call settled with, or NoResponse
  navLog,          \* the routes passed to router.replace, in order
  lastStep,        \* the handler that ran last
  clock,           \* the instant new Date() returns
  tasksData,       \* data of the recovery_tasks response of the analytics screen
  analytics,       \* useState<AnalyticsData> of the analytics screen
  analyticsPc,     \* position of loadTaskStats: "awaiting" or "done"
  recoveryTasks,   \* useState<RecoveryTask[]> of the timeline screen
  badges,          \* the badge rendered for each recovery task
  renderedAt,      \* the instant of the last render of the timeline
  authUsers,       \* auth.users: raw_user_meta_data->>'role' of each user id
  profiles,        \* the rows of the profiles table
  lastQuery,       \* the last statement run on profiles and what it did
  user,            \* the auth store's user: its id, or NoUser
  profile,         \* the auth store's profile, or NoProfile
  testResults,     \* useState<TestResult[]> of the diagnostic screen
  diagPc,          \* position of testPatientRLS: the read it awaits, or how it ended
  documents,       \* data of testPatientRLS's documents read
  surgeryPlans,    \* data of testPatientRLS's surgery_plans read
  platform,        \* Platform.OS
  route,           \* the route the router shows
  providerView,    \* what ProviderLayout returned at its last render
  sidebarOpen,     \* useState(false) of ProviderLayout
  mounted,         \* the data screen that is mounted, or "none"
  view,            \* the useState values of the mounted data screen
  loads,           \* the loads of the data screen with a request outstanding
  event,           \* the last step of the data screen
  awaited,         \* the loaders of one loadAnalytics still awaiting their select
  received,        \* what each loader of that loadAnalytics received
  groupInput,      \* the grouping loader under study and the rows it fetched
  evalStack,       \* the policy evaluation in progress, outermost frame first
  runPc,           \* position of the test of the diagnostic screen under way
  closure,         \* the user and profile of the render whose handler runs
  session,         \* the user of the supabase client's session, or NoUser
  ran,             \* what the run did so far and the session each test met
  docRows,         \* ids of the documents rows the tests inserted and left
  insertDoc,       \* insertDoc.id of testDataManipulation, 0 before the insert
  authLoading,     \* loading of the session holder
  onScreen,        \* what the root layout has on the screen
  taskTable        \* the rows of the recovery_tasks table

authVars == <<screen, email, password, confirmPassword, fullName, loading,
              errors, authPc, authCall, authResponse, navLog, lastStep>>

analyticsVars == <<tasksData, analytics, analyticsPc>>

timelineVars == <<recoveryTasks, badges, renderedAt>>

rlsVars == <<authUsers, profiles, lastQuery>>

storeVars == <<user, profile>>

diagVars == <<testResults, diagPc, documents, surgeryPlans>>

gateVars == <<platform, route, providerView, sidebarOpen>>

loadVars == <<mounted, view, loads, event>>

parallelVars == <<awaited, received>>

groupVars == <<groupInput>>

evalVars == <<evalStack>>

runVars == <<runPc, closure, session, ran, docRows, insertDoc>>

rootVars == <<authLoading, onScreen>>

tableVars == <<taskTable>>

moreVars == <<runVars, rootVars, tableVars>>

restVars == <<loadVars, parallelVars, groupVars, evalVars, moreVars>>

----------------------------------------------------------------------------
(* Text helpers *)

\* String.prototype.includes: p occurs in s as a contiguous run
Includes(s, p) ==
  \E i \in 1..(Len(s) + 1) :
     /\ i + Len(p) - 1 <= Len(s)
     /\ SubSeq(s, i, i + Len(p) - 1) = p

IsSpace(c) == c = " "

RECURSIVE TrimStart(_)
TrimStart(s) ==
  IF s = <<>> THEN <<>>
  ELSE IF IsSpace(Head(s)) THEN TrimStart(Tail(s)) ELSE s

RECURSIVE TrimEnd(_)
TrimEnd(s) ==
  IF s = <<>> THEN <<>>
  ELSE IF IsSpace(s[Len(s)]) THEN TrimEnd(SubSeq(s, 1, Len(s) - 1)) ELSE s

\* String.prototype.trim
Trim(s) == TrimEnd(TrimStart(s))

\* /\S+@\S+\.\S+/.test(s): some non-space before an '@', then a non-empty run
\* of non-spaces, a '.', and a non-space
EmailRegexTest(s) ==
  \E i \in 1..Len(s) : \E k \in 1..Len(s) :
     /\ s[i] = "@"
     /\ i > 1
     /\ ~IsSpace(s[i - 1])
     /\ k >= i + 2
     /\ s[k] = "."
     /\ \A j \in (i + 1)..(k - 1) : ~IsSpace(s[j])
     /\ k + 1 <= Len(s)
     /\ ~IsSpace(s[k + 1])

\* an object literal with optional keys
EmptyObject == [k \in {} |-> <<>>]

\* obj.k = v
Put(obj, k, v) == [x \in (DOMAIN obj) \cup {k} |-> IF x = k THEN v ELSE obj[x]]

\* Object.keys(obj).length === 0
NoKeys(obj) == DOMAIN obj = {}

----------------------------------------------------------------------------
(* Messages shown by the auth forms *)

EmailRequired == <<"Email", "is", "required">>
EmailInvalid == <<"Please", "enter", "a", "valid", "email">>
PasswordRequired == <<"Password", "is", "required">>
PasswordTooShort == <<"Password", "must", "be", "at", "least", "8", "characters">>
FullNameRequired == <<"Full", "name", "is", "required">>
ConfirmRequired == <<"Please", "confirm", "your", "password">>
PasswordsDoNotMatch == <<"Passwords", "do", "not", "match">>
InvalidCredentialsText ==
  <<"Invalid", "email", "or", "password.", "Please", "try", "again.">>
ConfirmEmailText ==
  <<"Please", "check", "your", "email", "and", "confirm", "your", "account",
    "before", "signing", "in.">>
SignInFailedText == <<"Sign", "in", "failed.", "Please", "try", "again.">>
AccountExistsText ==
  <<"An", "account", "with", "this", "email", "already", "exists.", "Please",
    "sign", "in", "instead.">>
SignUpFailedText ==
  <<"Failed", "to", "create", "account.", "Please", "try", "again.">>
UnexpectedErrorText ==
  <<"An", "unexpected", "error", "occurred.", "Please", "try", "again.">>

MinPasswordLength == 8

----------------------------------------------------------------------------
(* Bounds and input sets of the auth forms *)

MaxPasswordLen == 8

RECURSIVE Rep(_, _)
Rep(c, n) == IF n = 0 THEN <<>> ELSE <<c>> \o Rep(c, n - 1)

PasswordInputs ==
  {Rep("p", n) : n \in {0, MinPasswordLength - 1}
                        \cup (MinPasswordLength..MaxPasswordLen)}
    \cup {Rep("q", MinPasswordLength)}

EmailInputs ==
  { <<>>,
    <<"a", "@", "a", ".", "a">>,
    <<"a", "@", ".", "a">>,
    <<" ", "@", "a", ".", "a">> }

FullNameInputs == { <<>>, <<" ">>, <<" ", "n", " ">> }

\* the { message } part of an error the identity provider returns
ProviderMessages ==
  { <<>>,
    <<"Invalid", "login", "credentials">>,
    <<"Invalid", "email", "or", "password">>,
    <<"Email", "not", "confirmed">>,
    <<"Email", "not", "confirmed", "Invalid", "login", "credentials">>,
    <<"User", "already", "registered">>,
    <<"User", "already", "exists">>,
    <<"Password", "should", "be", "longer", "already", "registered">>,
    <<"Password", "should", "be", "at", "least", "6", "characters">>,
    <<"Email", "address", "invalid", "Password", "weak">>,
    <<"Email", "rate", "limit", "exceeded">>,
    <<"Network", "request", "failed">> }

ProviderErrors ==
  {[hasMessage |-> TRUE, message |-> m] : m \in ProviderMessages}
    \cup {[hasMessage |-> FALSE, message |-> <<>>]}

\* what an awaited signIn/signUp settles with
AuthResponses ==
  {[kind |-> "ok"], [kind |-> "throw"]}
    \cup {[kind |-> "error", error |-> e] : e \in ProviderErrors}

NoCall == [fn |-> "none"]
NoResponse == [kind |-> "none"]
AuthScreens == {"signIn", "signUp"}

----------------------------------------------------------------------------
(* Sign-in form *)

\* validateForm without the password check
SignInValidateFormSkipPassword(em, pw) ==
  IF em = <<>> THEN Put(EmptyObject, "email", EmailRequired)
  ELSE IF ~EmailRegexTest(em) THEN Put(EmptyObject, "email", EmailInvalid)
       ELSE EmptyObject

\* validateForm of SignInScreen: the newErrors object it builds
SignInValidateForm(em, pw) ==
  LET e1 == IF em = <<>> THEN Put(EmptyObject, "email", EmailRequired)
            ELSE IF ~EmailRegexTest(em)
                 THEN Put(EmptyObject, "email", EmailInvalid)
                 ELSE EmptyObject
      e2 == IF pw = <<>> THEN Put(e1, "password", PasswordRequired) ELSE e1
  IN e2

\* error.message?.includes(p)
MessageIncludes(err, p) == err.hasMessage /\ Includes(err.message, p)

\* error.message || fallback
MessageOr(err, fallback) ==
  IF err.hasMessage /\ err.message # <<>> THEN err.message ELSE fallback

\* the errors object handleSignIn sets for a returned error
SignInErrorObject(err) ==
  IF \/ MessageIncludes(err, <<"Invalid", "login", "credentials">>)
     \/ MessageIncludes(err, <<"Invalid", "email", "or", "password">>)
  THEN Put(EmptyObject, "general", InvalidCredentialsText)
  ELSE IF MessageIncludes(err, <<"Email", "not", "confirmed">>)
       THEN Put(EmptyObject, "general", ConfirmEmailText)
       ELSE Put(EmptyObject, "general", MessageOr(err, SignInFailedText))

\* handleSignIn behind a button that stays enabled while loading
HandleSignInWhileLoading ==
  /\ screen = "signIn"
  /\ LET newErrors == SignInValidateForm(email, password) IN
       IF ~NoKeys(newErrors)
       THEN /\ errors' = newErrors
            /\ UNCHANGED <<loading, authPc, authCall>>
       ELSE /\ loading' = TRUE
            /\ errors' = EmptyObject
            /\ authCall' = [fn |-> "signIn", email |-> email,
                            password |-> password]
            /\ authPc' = "awaiting"
  /\ lastStep' = "handleSignIn"
  /\ UNCHANGED <<screen, email, password, confirmPassword, fullName,
                 authResponse, navLog>>

\* handleSignIn up to its await (the button is disabled while loading)
HandleSignIn ==
  /\ screen = "signIn"
  /\ ~loading
  /\ LET newErrors == SignInValidateForm(email, password) IN
       IF ~NoKeys(newErrors)
       THEN /\ errors' = newErrors
            /\ UNCHANGED <<loading, authPc, authCall>>
       ELSE /\ loading' = TRUE
            /\ errors' = EmptyObject
            /\ authCall' = [fn |-> "signIn", email |-> email,
                            password |-> password]
            /\ authPc' = "awaiting"
  /\ lastStep' = "handleSignIn"
  /\ UNCHANGED <<screen, email, password, confirmPassword, fullName,
                 authResponse, navLog>>

\* handleSignIn navigating whatever the call settled with
SignInSettleAlwaysNavigate(r) ==
  /\ screen = "signIn"
  /\ authPc = "awaiting"
  /\ authCall.fn = "signIn"
  /\ navLog' = Append(navLog, "/(tabs)")
  /\ screen' = "tabs"
  /\ errors' = IF r.kind = "ok" THEN errors
               ELSE IF r.kind = "error" THEN SignInErrorObject(r.error)
               ELSE Put(EmptyObject, "general", UnexpectedErrorText)
  /\ loading' = FALSE
  /\ authPc' = "idle"
  /\ authCall' = NoCall
  /\ authResponse' = r
  /\ lastStep' = "signInSettled"
  /\ UNCHANGED <<email, password, confirmPassword, fullName>>

\* handleSignIn from the await to the end of finally
SignInSettle(r) ==
  /\ screen = "signIn"
  /\ authPc = "awaiting"
  /\ authCall.fn = "signIn"
  /\ IF r.kind = "ok"
     THEN /\ navLog' = Append(navLog, "/(tabs)")
          /\ screen' = "tabs"
          /\ UNCHANGED errors
     ELSE /\ errors' = IF r.kind = "error"
                       THEN SignInErrorObject(r.error)
                       ELSE Put(EmptyObject, "general", UnexpectedErrorText)
          /\ UNCHANGED <<navLog, screen>>
  /\ loading' = FALSE
  /\ authPc' = "idle"
  /\ authCall' = NoCall
  /\ authResponse' = r
  /\ lastStep' = "signInSettled"
  /\ UNCHANGED <<email, password, confirmPassword, fullName>>

----------------------------------------------------------------------------
(* Sign-up form *)

\* validateForm comparing the confirmation before testing it for emptiness
SignUpValidateFormCompareFirst(fn, em, pw, cpw) ==
  LET e1 == IF Trim(fn) = <<>>
            THEN Put(EmptyObject, "fullName", FullNameRequired)
            ELSE EmptyObject
      e2 == IF em = <<>> THEN Put(e1, "email", EmailRequired)
            ELSE IF ~EmailRegexTest(em) THEN Put(e1, "email", EmailInvalid)
                 ELSE e1
      e3 == IF pw = <<>> THEN Put(e2, "password", PasswordRequired)
            ELSE IF Len(pw) < MinPasswordLength
                 THEN Put(e2, "password", PasswordTooShort)
                 ELSE e2
      e4 == IF pw # cpw
            THEN Put(e3, "confirmPassword", PasswordsDoNotMatch)
            ELSE IF cpw = <<>>
                 THEN Put(e3, "confirmPassword", ConfirmRequired)
                 ELSE e3
  IN e4

\* validateForm without the minimum password length
SignUpValidateFormAnyLength(fn, em, pw, cpw) ==
  LET e1 == IF Trim(fn) = <<>>
            THEN Put(EmptyObject, "fullName", FullNameRequired)
            ELSE EmptyObject
      e2 == IF em = <<>> THEN Put(e1, "email", EmailRequired)
            ELSE IF ~EmailRegexTest(em) THEN Put(e1, "email", EmailInvalid)
                 ELSE e1
      e3 == IF pw = <<>> THEN Put(e2, "password", PasswordRequired) ELSE e2
      e4 == IF cpw = <<>> THEN Put(e3, "confirmPassword", ConfirmRequired)
            ELSE IF pw # cpw
                 THEN Put(e3, "confirmPassword", PasswordsDoNotMatch)
                 ELSE e3
  IN e4

\* validateForm of SignUpScreen: the newErrors object it builds
SignUpValidateForm(fn, em, pw, cpw) ==
  LET e1 == IF Trim(fn) = <<>>
            THEN Put(EmptyObject, "fullName", FullNameRequired)
            ELSE EmptyObject
      e2 == IF em = <<>> THEN Put(e1, "email", EmailRequired)
            ELSE IF ~EmailRegexTest(em) THEN Put(e1, "email", EmailInvalid)
                 ELSE e1
      e3 == IF pw = <<>> THEN Put(e2, "password", PasswordRequired)
            ELSE IF Len(pw) < MinPasswordLength
                 THEN Put(e2, "password", PasswordTooShort)
                 ELSE e2
      e4 == IF cpw = <<>> THEN Put(e3, "confirmPassword", ConfirmRequired)
            ELSE IF pw # cpw
                 THEN Put(e3, "confirmPassword", PasswordsDoNotMatch)
                 ELSE e3
  IN e4

\* the sign-up mapping testing 'Password' before 'already registered'
SignUpErrorObjectPasswordFirst(err) ==
  IF MessageIncludes(err, <<"Password">>)
  THEN Put(EmptyObject, "password", err.message)
  ELSE IF \/ MessageIncludes(err, <<"already", "registered">>)
          \/ MessageIncludes(err, <<"already", "exists">>)
       THEN Put(EmptyObject, "general", AccountExistsText)
       ELSE IF MessageIncludes(err, <<"Email">>)
            THEN Put(EmptyObject, "email", err.message)
            ELSE Put(EmptyObject, "general", MessageOr(err, SignUpFailedText))

\* the errors object handleSignUp sets for a returned error
SignUpErrorObject(err) ==
  IF \/ MessageIncludes(err, <<"already", "registered">>)
     \/ MessageIncludes(err, <<"already", "exists">>)
  THEN Put(EmptyObject, "general", AccountExistsText)
  ELSE IF MessageIncludes(err, <<"Password">>)
       THEN Put(EmptyObject, "password", err.message)
       ELSE IF MessageIncludes(err, <<"Email">>)
            THEN Put(EmptyObject, "email", err.message)
            ELSE Put(EmptyObject, "general", MessageOr(err, SignUpFailedText))

\* handleSignUp asking for the role 'admin' when the name typed is 'n'
HandleSignUpRoleFromForm ==
  /\ screen = "signUp"
  /\ ~loading
  /\ LET newErrors ==
           SignUpValidateForm(fullName, email, password, confirmPassword) IN
       IF ~NoKeys(newErrors)
       THEN /\ errors' = newErrors
            /\ UNCHANGED <<loading, authPc, authCall>>
       ELSE /\ loading' = TRUE
            /\ errors' = EmptyObject
            /\ authCall' = [fn |-> "signUp", email |-> email,
                            password |-> password,
                            full_name |-> Trim(fullName),
                            role |-> IF Trim(fullName) = <<"n">>
                                     THEN "admin" ELSE "patient",
                            region |-> "AU"]
            /\ authPc' = "awaiting"
  /\ lastStep' = "handleSignUp"
  /\ UNCHANGED <<screen, email, password, confirmPassword, fullName,
                 authResponse, navLog>>

\* handleSignUp up to its await (the button is disabled while loading)
HandleSignUp ==
  /\ screen = "signUp"
  /\ ~loading
  /\ LET newErrors ==
           SignUpValidateForm(fullName, email, password, confirmPassword) IN
       IF ~NoKeys(newErrors)
       THEN /\ errors' = newErrors
            /\ UNCHANGED <<loading, authPc, authCall>>
       ELSE /\ loading' = TRUE
            /\ errors' = EmptyObject
            /\ authCall' = [fn |-> "signUp", email |-> email,
                            password |-> password,
                            full_name |-> Trim(fullName),
                            role |-> "patient", region |-> "AU"]
            /\ authPc' = "awaiting"
  /\ lastStep' = "handleSignUp"
  /\ UNCHANGED <<screen, email, password, confirmPassword, fullName,
                 authResponse, navLog>>

\* handleSignUp from the await to the end of finally
SignUpSettle(r) ==
  /\ screen = "signUp"
  /\ authPc = "awaiting"
  /\ authCall.fn = "signUp"
  /\ IF r.kind = "ok"
     THEN /\ navLog' = Append(navLog, "/(auth)/onboarding")
          /\ screen' = "onboarding"
          /\ UNCHANGED errors
     ELSE /\ errors' = IF r.kind = "error"
                       THEN SignUpErrorObject(r.error)
                       ELSE Put(EmptyObject, "general", UnexpectedErrorText)
          /\ UNCHANGED <<navLog, screen>>
  /\ loading' = FALSE
  /\ authPc' = "idle"
  /\ authCall' = NoCall
  /\ authResponse' = r
  /\ lastStep' = "signUpSettled"
  /\ UNCHANGED <<email, password, confirmPassword, fullName>>

----------------------------------------------------------------------------
(* Typing into the inputs of the mounted form (onChangeText) *)

setEmail(v) ==
  /\ screen \in AuthScreens
  /\ email' = v
  /\ lastStep' = "edit"
  /\ UNCHANGED <<screen, password, confirmPassword, fullName, loading, errors,
                 authPc, authCall, authResponse, navLog>>

setPassword(v) ==
  /\ screen \in AuthScreens
  /\ password' = v
  /\ lastStep' = "edit"
  /\ UNCHANGED <<screen, email, confirmPassword, fullName, loading, errors,
                 authPc, authCall, authResponse, navLog>>

setConfirmPassword(v) ==
  /\ screen = "signUp"
  /\ confirmPassword' = v
  /\ lastStep' = "edit"
  /\ UNCHANGED <<screen, email, password, fullName, loading, errors,
                 authPc, authCall, authResponse, navLog>>

setFullName(v) ==
  /\ screen = "signUp"
  /\ fullName' = v
  /\ lastStep' = "edit"
  /\ UNCHANGED <<screen, email, password, confirmPassword, loading, errors,
                 authPc, authCall, authResponse, navLog>>

\* one of the two auth screens is mounted with its useState defaults
AuthInit ==
  /\ screen \in AuthScreens
  /\ email = <<>>
  /\ password = <<>>
  /\ confirmPassword = <<>>
  /\ fullName = <<>>
  /\ loading = FALSE
  /\ errors = EmptyObject
  /\ authPc = "idle"
  /\ authCall = NoCall
  /\ authResponse = NoResponse
  /\ navLog = <<>>
  /\ lastStep = "mount"

AuthNext ==
  \/ \E v \in EmailInputs : setEmail(v)
  \/ \E v \in PasswordInputs : setPassword(v)
  \/ \E v \in PasswordInputs : setConfirmPassword(v)
  \/ \E v \in FullNameInputs : setFullName(v)
  \/ HandleSignIn
  \/ \E r \in AuthResponses : SignInSettle(r)
  \/ HandleSignUp
  \/ \E r \in AuthResponses : SignUpSettle(r)

----------------------------------------------------------------------------
(* Dates and the clock *)

MaxTime == 2

\* a timestamp column value: the ISO text of an instant
DateStrings == {[iso |-> t] : t \in 0..MaxTime}

\* new Date(dateString), as its time value
NewDate(dateString) == dateString.iso

\* the clock moves on
Tick ==
  /\ clock < MaxTime
  /\ clock' = clock + 1

----------------------------------------------------------------------------
(* Number arithmetic: an IEEE-754 double is a sign-less record of its 53     *)
(* significand bits, most significant first, and the exponent of the first   *)
(* bit; the values here are never negative, subnormal or infinite            *)

Precision == 53

Reverse(s) == [i \in 1..Len(s) |-> s[Len(s) + 1 - i]]

\* the bits of a natural number, least significant first
RECURSIVE NatBits(_)
NatBits(n) == IF n = 0 THEN <<>> ELSE <<n % 2>> \o NatBits(n \div 2)

\* the natural number of a bit sequence, most significant first
RECURSIVE BitsNat(_)
BitsNat(b) ==
  IF b = <<>> THEN 0 ELSE 2 * BitsNat(SubSeq(b, 1, Len(b) - 1)) + b[Len(b)]

\* b + 1 on a bit sequence, most significant first: the last 0 becomes 1 and
\* the 1s after it become 0; all 1s give a 1 and as many 0s
IncBits(b) ==
  LET zeros == {i \in 1..Len(b) : b[i] = 0}
      last == CHOOSE i \in zeros : \A j \in zeros : j <= i
  IN IF zeros = {} THEN <<1>> \o [i \in 1..Len(b) |-> 0]
     ELSE [i \in 1..Len(b) |-> IF i < last THEN b[i]
                               ELSE IF i = last THEN 1 ELSE 0]

\* round an exact significand (first bit 1) whose first bit has exponent e
\* to Precision bits, ties to even; roundUp says whether the discarded part
\* is above one half, or one half with an odd kept part
Normalize(kept, roundUp, e) ==
  LET inc == IF roundUp THEN IncBits(kept) ELSE kept
  IN IF Len(inc) > Precision
     THEN [zero |-> FALSE, bits |-> SubSeq(inc, 1, Precision), exp |-> e + 1]
     ELSE [zero |-> FALSE, bits |-> inc, exp |-> e]

\* n bits of x / t by long division, with twice the final remainder: the
\* first half of the bits, then the other half from the remainder of the
\* first
RECURSIVE LongDiv(_, _, _)
LongDiv(x, t, n) ==
  IF n = 0 THEN [bits |-> <<>>, rem |-> x]
  ELSE IF n = 1
  THEN LET b == IF x >= t THEN 1 ELSE 0
       IN [bits |-> <<b>>, rem |-> 2 * (x - b * t)]
  ELSE LET first == LongDiv(x, t, n \div 2)
           rest == LongDiv(first.rem, t, n - n \div 2)
       IN [bits |-> first.bits \o rest.bits, rem |-> rest.rem]

\* the exponent of c / t and the scaled numerator x with t <= x < 2t
RECURSIVE ScaleUp(_, _, _)
ScaleUp(x, t, e) == IF x >= t THEN [x |-> x, exp |-> e] ELSE ScaleUp(2 * x, t, e - 1)

\* c / t for integers 0 <= c <= t, 0 < t, rounded to the nearest double
Divide(c, t) ==
  IF c = 0 THEN [zero |-> TRUE, bits |-> <<>>, exp |-> 0]
  ELSE LET sc == ScaleUp(c, t, 0)
           q == LongDiv(sc.x, t, Precision)
           up == \/ q.rem > t
                 \/ (q.rem = t /\ q.bits[Precision] = 1)
       IN Normalize(q.bits, up, sc.exp)

\* the low Len(b) bits of b * k + carry, least significant first, and what
\* is carried out of them: one half of the bits, then the other half with
\* the carry of the first
RECURSIVE MulBits(_, _, _)
MulBits(b, k, carry) ==
  IF b = <<>> THEN [bits |-> <<>>, carry |-> carry]
  ELSE IF Len(b) = 1
  THEN LET v == b[1] * k + carry
       IN [bits |-> <<v % 2>>, carry |-> v \div 2]
  ELSE LET half == Len(b) \div 2
           low == MulBits(SubSeq(b, 1, half), k, carry)
           high == MulBits(SubSeq(b, half + 1, Len(b)), k, low.carry)
       IN [bits |-> low.bits \o high.bits, carry |-> high.carry]

\* the bits of b * k, least significant first, for a small natural k
MulSmall(b, k, carry) ==
  LET m == MulBits(b, k, carry) IN m.bits \o NatBits(m.carry)

\* x * k for a double x and a small natural k, rounded to the nearest double
Multiply(x, k) ==
  IF x.zero THEN x
  ELSE LET prod == Reverse(MulSmall(Reverse(x.bits), k, 0))
           extra == Len(prod) - Precision
           kept == SubSeq(prod, 1, Precision)
           lost == SubSeq(prod, Precision + 1, Len(prod))
           sticky == \E i \in 2..Len(lost) : lost[i] = 1
           up == /\ extra > 0
                 /\ lost[1] = 1
                 /\ (sticky \/ kept[Precision] = 1)
       IN Normalize(kept, up, x.exp + extra)

\* Math.round(x) for a double 0 <= x < 2^Precision: the nearest integer,
\* a half going up
MathRound(x) ==
  IF x.zero THEN 0
  ELSE IF x.exp < -1 THEN 0
  ELSE BitsNat(SubSeq(x.bits, 1, x.exp + 1)) + x.bits[x.exp + 2]

----------------------------------------------------------------------------
(* Analytics screen: task statistics *)

MaxFetchedTasks == 40

\* the rows a recovery_tasks select can return: c completed tasks followed
\* by n - c open ones, all due at d
TaskRows(c, n, d) == [i \in 1..n |-> [completed |-> i <= c, due_date |-> d]]

\* data of a response: null, or the rows
NoData == [isNull |-> TRUE, rows |-> <<>>]

Rows(r) == [isNull |-> FALSE, rows |-> r]

TasksResponses ==
  UNION {{Rows(TaskRows(c, n, d)) : c \in 0..n, d \in DateStrings} :
           n \in 0..MaxFetchedTasks}
    \cup {NoData}

\* the taskCompletionRate expression of loadTaskStats
TaskCompletionRate(completedTasks, length) ==
  IF length > 0 THEN MathRound(Multiply(Divide(completedTasks, length), 100))
  ELSE 0

\* the object loadTaskStats passes to setAnalytics
TaskStats(prev, tasks, now) ==
  LET IsCompleted(t) == t.completed
      IsOverdue(t) == ~t.completed /\ NewDate(t.due_date) < now
      completedTasks == Len(SelectSeq(tasks, IsCompleted))
      overdueTasks == Len(SelectSeq(tasks, IsOverdue))
  IN [prev EXCEPT !.completedTasks = completedTasks,
                  !.overdueTasks = overdueTasks,
                  !.taskCompletionRate =
                     TaskCompletionRate(completedTasks, Len(tasks))]

\* loadTaskStats from the response of its select to its end
LoadTaskStats ==
  /\ analyticsPc = "awaiting"
  /\ analytics' = IF ~tasksData.isNull
                  THEN TaskStats(analytics, tasksData.rows, clock)
                  ELSE analytics
  /\ analyticsPc' = "done"
  /\ UNCHANGED <<tasksData, clock>>

\* the screen as mounted, its recovery_tasks request answered
AnalyticsInit ==
  /\ tasksData \in TasksResponses
  /\ analytics = [totalPatients |-> 0, activePlans |-> 0, completedTasks |-> 0,
                  overdueTasks |-> 0, patientsByRegion |-> <<>>,
                  plansByStatus |-> <<>>, taskCompletionRate |-> 0,
                  monthlyRegistrations |-> <<>>]
  /\ analyticsPc = "awaiting"

AnalyticsIdle == AnalyticsInit /\ tasksData = NoData

\* the values of surgery_plans.status
PlanStatuses == {"planning", "pre_op", "surgery", "post_op", "completed"}

\* the values of profiles.region
Regions == {"AU", "NZ", "TH"}

\* count of a head-only select: null on a failed read
NullCount == -1

\* the statuses loadPlanStats counts as active
ActiveStatuses == {"planning", "pre_op", "surgery", "post_op"}

\* a created_at the profiles table can hold: a calendar date
MonthShort ==
  <<"Jan", "Feb", "Mar", "Apr", "May", "Jun",
    "Jul", "Aug", "Sep", "Oct", "Nov", "Dec">>

CreatedAts == {[iso |-> [year |-> y, month |-> m, day |-> d]] :
                 y \in {2024, 2025}, m \in {1, 2, 12}, d \in {1, 28}}

\* new Date(created_at).toLocaleDateString('en-US',
\*   { year: 'numeric', month: 'short' }), e.g. "Jan 2025"
ToLocaleMonth(created_at) ==
  <<MonthShort[NewDate(created_at).month], NewDate(created_at).year>>

\* rows.reduce((acc, row) => { existing = acc.find(item => item.key === key);
\*   if (existing) existing.count++ else acc.push({ key, count: 1 }) }, acc)
RECURSIVE Reduce(_, _)
Reduce(keys, acc) ==
  IF keys = <<>> THEN acc
  ELSE LET key == Head(keys)
           found == {i \in 1..Len(acc) : acc[i].key = key}
           existing == CHOOSE i \in found : \A j \in found : i <= j
       IN Reduce(Tail(keys),
                 IF found # {}
                 THEN [acc EXCEPT ![existing].count = @ + 1]
                 ELSE Append(acc, [key |-> key, count |-> 1]))

\* the object loadPatientStats passes to setAnalytics: count || 0
PatientStats(prev, count) ==
  [prev EXCEPT !.totalPatients = IF count = NullCount THEN 0 ELSE count]

\* loadPlanStats grouping only the plans it counts as active
PlanStatsActiveOnly(prev, plans) ==
  LET IsActive(p) == p.status \in ActiveStatuses
      active == SelectSeq(plans, IsActive)
      acc == Reduce([i \in 1..Len(active) |-> active[i].status], <<>>)
  IN [prev EXCEPT
        !.activePlans = Len(active),
        !.plansByStatus =
           [i \in 1..Len(acc) |-> [status |-> acc[i].key,
                                   count |-> acc[i].count]]]

\* the object loadPlanStats passes to setAnalytics
PlanStats(prev, plans) ==
  LET IsActive(p) == p.status \in ActiveStatuses
      acc == Reduce([i \in 1..Len(plans) |-> plans[i].status], <<>>)
  IN [prev EXCEPT
        !.activePlans = Len(SelectSeq(plans, IsActive)),
        !.plansByStatus =
           [i \in 1..Len(acc) |-> [status |-> acc[i].key,
                                   count |-> acc[i].count]]]

\* the object loadRegionStats passes to setAnalytics
RegionStats(prev, rows) ==
  LET acc == Reduce([i \in 1..Len(rows) |-> rows[i].region], <<>>)
  IN [prev EXCEPT
        !.patientsByRegion =
           [i \in 1..Len(acc) |-> [region |-> acc[i].key,
                                   count |-> acc[i].count]]]

\* the object loadMonthlyStats passes to setAnalytics
MonthlyStats(prev, rows) ==
  LET acc == Reduce([i \in 1..Len(rows) |-> ToLocaleMonth(rows[i].created_at)],
                    <<>>)
  IN [prev EXCEPT
        !.monthlyRegistrations =
           [i \in 1..Len(acc) |-> [month |-> acc[i].key,
                                   count |-> acc[i].count]]]

\* the five loaders of loadAnalytics
Loaders ==
  {"loadPatientStats", "loadPlanStats", "loadTaskStats", "loadRegionStats",
   "loadMonthlyStats"}

\* what a loader's awaited select settles with: a count or rows, a returned
\* error (count or data null), or a rejection
CountReply(n) == [status |-> "ok", count |-> n]

RowsReply(r) == [status |-> "ok", data |-> Rows(r)]

FailedCounts == {[status |-> s, count |-> NullCount] : s \in {"error", "throw"}}

FailedRows == {[status |-> s, data |-> NoData] : s \in {"error", "throw"}}

\* useState<AnalyticsData> as constructed
InitialAnalytics ==
  [totalPatients |-> 0, activePlans |-> 0, completedTasks |-> 0,
   overdueTasks |-> 0, patientsByRegion |-> <<>>, plansByStatus |-> <<>>,
   taskCompletionRate |-> 0, monthlyRegistrations |-> <<>>]

\* the loaders spreading the analytics object of the render that started
\* them, setAnalytics({ ...analytics, ... }), not the one setAnalytics hands
\* to its updater
LoaderReturnedFromSnapshot(prev, loader, r, now) ==
  IF r.status = "throw" THEN prev
  ELSE IF loader = "loadPatientStats"
  THEN PatientStats(InitialAnalytics, r.count)
  ELSE IF r.data.isNull THEN prev
  ELSE IF loader = "loadPlanStats"
  THEN PlanStats(InitialAnalytics, r.data.rows)
  ELSE IF loader = "loadTaskStats"
  THEN TaskStats(InitialAnalytics, r.data.rows, now)
  ELSE IF loader = "loadRegionStats"
  THEN RegionStats(InitialAnalytics, r.data.rows)
  ELSE MonthlyStats(InitialAnalytics, r.data.rows)

\* the analytics state after a loader received reply r: a rejection goes to
\* the loader's catch, a null data skips setAnalytics
LoaderReturned(prev, loader, r, now) ==
  IF r.status = "throw" THEN prev
  ELSE IF loader = "loadPatientStats" THEN PatientStats(prev, r.count)
  ELSE IF r.data.isNull THEN prev
  ELSE IF loader = "loadPlanStats" THEN PlanStats(prev, r.data.rows)
  ELSE IF loader = "loadTaskStats" THEN TaskStats(prev, r.data.rows, now)
  ELSE IF loader = "loadRegionStats" THEN RegionStats(prev, r.data.rows)
  ELSE MonthlyStats(prev, r.data.rows)

AuthIdle == AuthInit /\ screen = "signIn"

----------------------------------------------------------------------------
(* Timeline screen: recovery tasks and their badges *)

MaxTimelineTasks == 2

RecoveryTaskRows ==
  [completed : BOOLEAN, due_date : DateStrings]

\* .order('due_date', { ascending: true })
OrderedByDueDate(rows) ==
  \A i \in 1..(Len(rows) - 1) :
     NewDate(rows[i].due_date) <= NewDate(rows[i + 1].due_date)

\* the data a recovery_tasks select of the timeline can return
RecoveryTaskResponses ==
  {NoData} \cup
  {Rows(r) : r \in {x \in UNION {[1..n -> RecoveryTaskRows] :
                                   n \in 0..MaxTimelineTasks} :
                      OrderedByDueDate(x)}}

\* the badge with <= in place of <
TaskBadgeDueNow(task, now) ==
  IF task.completed THEN "Completed"
  ELSE IF NewDate(task.due_date) <= now THEN "Overdue"
       ELSE "Pending"

\* the badge the task list renders for a task
TaskBadge(task, now) ==
  IF task.completed THEN "Completed"
  ELSE IF NewDate(task.due_date) < now THEN "Overdue"
       ELSE "Pending"

\* the badges of recoveryTasks.map(...)
RenderBadges(tasks, now) == [i \in 1..Len(tasks) |-> TaskBadge(tasks[i], now)]

\* setRecoveryTasks(data || []) in loadRecoveryTasks, and the render it causes
setRecoveryTasks(data) ==
  /\ recoveryTasks' = (IF data.isNull THEN <<>> ELSE data.rows)
  /\ badges' = RenderBadges(recoveryTasks', clock)
  /\ renderedAt' = clock
  /\ UNCHANGED clock

\* a render of the timeline for another reason
RenderTimeline ==
  /\ badges' = RenderBadges(recoveryTasks, clock)
  /\ renderedAt' = clock
  /\ UNCHANGED <<recoveryTasks, clock>>

TimelineInit ==
  /\ recoveryTasks = <<>>
  /\ badges = <<>>
  /\ renderedAt = 0

----------------------------------------------------------------------------
(* Row-level security of the profiles table *)

MaxUsers == 2

UserIds == 1..MaxUsers

RoleEnum == <<"patient", "nurse", "coordinator", "admin", "sales">>

Roles == {RoleEnum[i] : i \in 1..Len(RoleEnum)}

FullNames == {"x", "y"}

ProfileRows == [id : UserIds, full_name : FullNames]

\* is_provider reading only the first three roles of the IN list
is_providerWithoutSales(user_id) ==
  \E u \in DOMAIN authUsers :
     /\ u = user_id
     /\ authUsers[u] \in {"nurse", "coordinator", "admin"}

\* FUNCTION is_provider(user_id uuid)
is_provider(user_id) ==
  \E u \in DOMAIN authUsers :
     /\ u = user_id
     /\ authUsers[u] \in {"nurse", "coordinator", "admin", "sales"}

\* USING of the permissive SELECT policies, OR-ed:
\* "Users can read own profile", "Providers can read all profiles"
SelectUsing(uid, row) ==
  \/ uid = row.id
  \/ is_provider(uid)

\* USING of the permissive UPDATE policies, OR-ed:
\* "Users can update own profile", "Providers can update any profile"
UpdateUsing(uid, row) ==
  \/ uid = row.id
  \/ is_provider(uid)

\* WITH CHECK of the permissive UPDATE policies, OR-ed
UpdateCheck(uid, row) ==
  \/ uid = row.id
  \/ is_provider(uid)

\* WITH CHECK of the INSERT policy "System can insert profiles"
InsertCheck(uid, row) == uid = row.id

NoQuery ==
  [op |-> "none", uid |-> 0, target |-> 0, row |-> [id |-> 0, full_name |-> ""],
   ok |-> TRUE, rows |-> {}]

\* SELECT * FROM profiles as uid: the rows the policies let through
SelectProfiles(uid) ==
  /\ lastQuery' = [op |-> "select", uid |-> uid, target |-> 0,
                   row |-> NoQuery.row, ok |-> TRUE,
                   rows |-> {r \in profiles : SelectUsing(uid, r)}]
  /\ UNCHANGED <<authUsers, profiles>>

\* UPDATE profiles SET (id, full_name) = row WHERE id = target, as uid:
\* rows failing USING are skipped; a new row failing WITH CHECK, or taking
\* the id of another row, aborts the statement
UpdateProfile(uid, target, row) ==
  LET hit == {r \in profiles :
                r.id = target /\ SelectUsing(uid, r) /\ UpdateUsing(uid, r)}
      ok == \/ hit = {}
            \/ /\ UpdateCheck(uid, row)
               /\ \A r \in profiles \ hit : r.id # row.id
  IN /\ profiles' = IF ok /\ hit # {} THEN (profiles \ hit) \cup {row}
                    ELSE profiles
     /\ lastQuery' = [op |-> "update", uid |-> uid, target |-> target,
                      row |-> row, ok |-> ok,
                      rows |-> IF ok THEN hit ELSE {}]
     /\ UNCHANGED authUsers

\* INSERT INTO profiles VALUES row, as uid
InsertProfile(uid, row) ==
  LET ok == /\ InsertCheck(uid, row)
            /\ \A r \in profiles : r.id # row.id
  IN /\ profiles' = IF ok THEN profiles \cup {row} ELSE profiles
     /\ lastQuery' = [op |-> "insert", uid |-> uid, target |-> row.id,
                      row |-> row, ok |-> ok,
                      rows |-> IF ok THEN {row} ELSE {}]
     /\ UNCHANGED authUsers

\* the position of a role in the role enum
RoleRank(r) == CHOOSE i \in 1..Len(RoleEnum) : RoleEnum[i] = r

\* every user has signed up with some role in its metadata; no profile yet.
\* User ids are interchangeable, so one numbering of each mix of roles is
\* enough: roles are taken in enum order along the ids.
RlsInit ==
  /\ authUsers \in [UserIds -> Roles]
  /\ \A u \in UserIds, v \in UserIds :
       u < v => RoleRank(authUsers[u]) <= RoleRank(authUsers[v])
  /\ profiles = {}
  /\ lastQuery = NoQuery

RlsIdle == RlsInit /\ authUsers = [u \in UserIds |-> "patient"]

----------------------------------------------------------------------------
(* The auth store: the session's user and profile *)

NoUser == 0

NoProfile == [isNull |-> TRUE, role |-> ""]

Profile(r) == [isNull |-> FALSE, role |-> r]

\* the sessions the store can hold: nobody, a user whose profile is not
\* loaded, a user with a profile
Sessions ==
  {<<NoUser, NoProfile>>}
    \cup {<<u, NoProfile>> : u \in UserIds}
    \cup {<<u, Profile(r)>> : u \in UserIds, r \in Roles}

StoreInit ==
  /\ user = NoUser
  /\ profile = NoProfile

StoreAnySession == \E s \in Sessions : user = s[1] /\ profile = s[2]

----------------------------------------------------------------------------
(* Diagnostic screen: testPatientRLS *)

MaxDiagRows == 2

MaxTestResults == 5

\* rows of documents or surgery_plans, by their patient_id
OwnedRows == [patient_id : UserIds]

OwnedResponses ==
  {NoData} \cup
  {Rows(r) : r \in UNION {[1..n -> OwnedRows] : n \in 0..MaxDiagRows}}

\* the outcomes of .single() on the caller's own profile
OwnProfileResponses == {"row", "error"}

\* data of select('*') on profiles: null, or that many rows
AllProfilesResponses == {-1} \cup (0..MaxDiagRows)

\* addTestResult
addTestResult(results, test, status, message) ==
  Append(results, [test |-> test, status |-> status, message |-> message])

\* rows.filter(row => row.patient_id !== user.id) || []
OtherRows(data, uid) ==
  IF data.isNull THEN <<>>
  ELSE LET IsOther(row) == row.patient_id # uid IN SelectSeq(data.rows, IsOther)

\* the ownership check reading ownRows in place of otherRows
OwnedCheckOnOwnRows(results, data, test, failMessage, passMessage) ==
  LET IsOwn(row) == row.patient_id = user
      ownRows == IF data.isNull THEN <<>> ELSE SelectSeq(data.rows, IsOwn)
  IN IF profile.role = "patient" /\ ~profile.isNull
     THEN IF Len(ownRows) > 0
          THEN addTestResult(results, test, "fail", failMessage)
          ELSE addTestResult(results, test, "pass", passMessage)
     ELSE results

\* the result a patient session's ownership check adds for a read
OwnedCheck(results, data, test, failMessage, passMessage) ==
  IF profile.role = "patient" /\ ~profile.isNull
  THEN IF Len(OtherRows(data, user)) > 0
       THEN addTestResult(results, test, "fail", failMessage)
       ELSE addTestResult(results, test, "pass", passMessage)
  ELSE results

\* testPatientRLS up to its first await; the const bindings documents and
\* surgeryPlans of the try block are fresh in every call
testPatientRLS ==
  /\ diagPc \in {"idle", "done", "caught"}
  /\ Len(testResults) + 5 <= MaxTestResults
  /\ IF user = NoUser
     THEN /\ testResults' = addTestResult(testResults, "Patient RLS", "fail",
                                          "No user logged in")
          /\ diagPc' = "done"
     ELSE /\ testResults' = addTestResult(testResults, "Patient RLS", "pending",
                                          "Testing patient data access...")
          /\ diagPc' = "ownProfile"
  /\ documents' = NoData
  /\ surgeryPlans' = NoData

\* from the own-profile read to the next await
OwnProfileReturned(resp) ==
  /\ diagPc = "ownProfile"
  /\ testResults' =
       IF resp = "error"
       THEN addTestResult(testResults, "Read Own Profile", "fail",
                          "Cannot read own profile")
       ELSE addTestResult(testResults, "Read Own Profile", "pass",
                          "Can read own profile")
  /\ diagPc' = IF profile.role = "patient" /\ ~profile.isNull
               THEN "allProfiles" ELSE "documents"
  /\ UNCHANGED <<documents, surgeryPlans>>

\* from the all-profiles read to the documents read
AllProfilesReturned(count) ==
  /\ diagPc = "allProfiles"
  /\ testResults' =
       IF count > 1
       THEN addTestResult(testResults, "Read Other Profiles", "fail",
                          "Patient can read other profiles (RLS violation!)")
       ELSE IF count = 1
            THEN addTestResult(testResults, "Read Other Profiles", "pass",
                               "Patient can only see own profile")
            ELSE testResults
  /\ diagPc' = "documents"
  /\ UNCHANGED <<documents, surgeryPlans>>

\* from the documents read to the surgery_plans read
DocumentsReturned(data) ==
  /\ diagPc = "documents"
  /\ documents' = data
  /\ testResults' =
       OwnedCheck(testResults, data, "Documents RLS",
                  "Patient can see other patients' documents!",
                  "Patient can only see own documents")
  /\ diagPc' = "surgeryPlans"
  /\ UNCHANGED surgeryPlans

\* from the surgery_plans read to the end of testPatientRLS; documents is
\* not read after its own check and leaves scope here
SurgeryPlansReturned(data) ==
  /\ diagPc = "surgeryPlans"
  /\ surgeryPlans' = data
  /\ testResults' =
       OwnedCheck(testResults, data, "Surgery Plans RLS",
                  "Patient can see other patients' surgery plans!",
                  "Patient can only see own surgery plans")
  /\ diagPc' = "done"
  /\ documents' = NoData

\* an awaited read throws: the catch of testPatientRLS, outside the scope of
\* the try block's bindings
PatientRLSThrows ==
  /\ diagPc \in {"ownProfile", "allProfiles", "documents", "surgeryPlans"}
  /\ testResults' = addTestResult(testResults, "Patient RLS", "fail",
                                  "RLS test failed")
  /\ diagPc' = "caught"
  /\ documents' = NoData
  /\ surgeryPlans' = NoData

\* clearResults
clearResults ==
  /\ testResults' = <<>>
  /\ UNCHANGED <<diagPc, documents, surgeryPlans>>

DiagInit ==
  /\ testResults = <<>>
  /\ diagPc = "idle"
  /\ documents = NoData
  /\ surgeryPlans = NoData

----------------------------------------------------------------------------
(* Provider layout *)

PROVIDER_ROLES == {"nurse", "coordinator", "admin", "sales"}

NAVIGATION_ITEMS ==
  {"/(provider)", "/(provider)/patients", "/(provider)/messages",
   "/(provider)/appointments", "/(provider)/documents",
   "/(provider)/analytics", "/(provider)/settings"}

\* what ProviderLayout returns for the store's user and profile
ProviderLayoutRender(u, p) ==
  IF u = NoUser THEN "Redirect:/(auth)/sign-in"
  ELSE IF ~p.isNull /\ p.role \notin PROVIDER_ROLES THEN "Redirect:/(tabs)"
       ELSE "ProviderScreens"

\* the route shown once ProviderLayout has rendered for href
RouteAfterRender(rendered, href) ==
  IF rendered = "Redirect:/(auth)/sign-in" THEN "/(auth)/sign-in"
  ELSE IF rendered = "Redirect:/(tabs)" THEN "/(tabs)"
       ELSE href

\* ProviderLayout is mounted
InProvider == route \in NAVIGATION_ITEMS

\* a mounted ProviderLayout renders again for a new session
RenderAgain(u, p) ==
  IF InProvider
  THEN /\ providerView' = ProviderLayoutRender(u, p)
       /\ route' = RouteAfterRender(providerView', route)
  ELSE UNCHANGED <<providerView, route>>

\* the store receives a signed-in user; its profile is not loaded yet
StoreSignedIn(u) ==
  /\ user = NoUser
  /\ user' = u
  /\ profile' = NoProfile
  /\ RenderAgain(user', profile')
  /\ UNCHANGED <<platform, sidebarOpen>>

\* the store receives the profile row of its user
StoreProfileLoaded(r) ==
  /\ user # NoUser
  /\ profile.isNull
  /\ profile' = Profile(r)
  /\ RenderAgain(user, profile')
  /\ UNCHANGED <<user, platform, sidebarOpen>>

\* the store is told the session ended
StoreSignedOut ==
  /\ user # NoUser
  /\ user' = NoUser
  /\ profile' = NoProfile
  /\ RenderAgain(user', profile')
  /\ UNCHANGED <<platform, sidebarOpen>>

\* a provider route is opened from outside the provider group
EnterProvider(href) ==
  /\ ~InProvider
  /\ providerView' = ProviderLayoutRender(user, profile)
  /\ route' = RouteAfterRender(providerView', href)
  /\ sidebarOpen' = FALSE
  /\ UNCHANGED <<user, profile, platform>>

\* handleNavigation
handleNavigation(href) ==
  /\ InProvider
  /\ platform = "web" \/ sidebarOpen
  /\ route' = href
  /\ sidebarOpen' = IF platform # "web" THEN FALSE ELSE sidebarOpen
  /\ UNCHANGED <<user, profile, platform, providerView>>

\* the menu button and the close button of the mobile layout
setSidebarOpen(open) ==
  /\ InProvider
  /\ platform # "web"
  /\ sidebarOpen # open
  /\ sidebarOpen' = open
  /\ UNCHANGED <<user, profile, platform, providerView, route>>

\* handleSignOut: signOut() empties the store, then router.replace
handleSignOut ==
  /\ InProvider
  /\ platform = "web" \/ sidebarOpen
  /\ user' = NoUser
  /\ profile' = NoProfile
  /\ providerView' = ProviderLayoutRender(user', profile')
  /\ route' = "/(auth)/sign-in"
  /\ UNCHANGED <<platform, sidebarOpen>>

GateInit ==
  /\ platform \in {"web", "ios"}
  /\ route = "/"
  /\ providerView = "unmounted"
  /\ sidebarOpen = FALSE

GateIdle == GateInit /\ platform = "web"

----------------------------------------------------------------------------
(* Data screens: timeline, analytics, patient list, provider dashboard.
   Each screen mounts showing the spinner, runs its load from an effect, and
   runs it again from onRefresh. A load is kept while a request of it is
   outstanding. *)

DataScreens == {"timeline", "analytics", "patients", "dashboard"}

\* loads with a request outstanding at one time
MaxLiveLoads == 2

\* the versions of a row a select can find
DataVersions == {1, 2}

NoPlan == [isNull |-> TRUE, id |-> 0]

NoError == [isNull |-> TRUE, message |-> ""]

FailedToLoadTimeline ==
  [isNull |-> FALSE,
   message |-> "Failed to load your timeline data. Please try again later."]

\* lower-case letters of the alphabet the patient rows are written in
ToLowerCase(s) ==
  [i \in 1..Len(s) |-> IF s[i] = "A" THEN "a"
                       ELSE IF s[i] = "B" THEN "b" ELSE s[i]]

\* filterPatients comparing the texts as they are, without toLowerCase
filterPatientsCaseSensitive(patients, searchQuery, selectedRegion) ==
  LET Matches(patient) ==
        \/ Includes(patient.full_name, searchQuery)
        \/ Includes(patient.email, searchQuery)
      InRegion(patient) == patient.region = selectedRegion
      filtered == IF searchQuery # <<>> THEN SelectSeq(patients, Matches)
                  ELSE patients
  IN IF selectedRegion # "all" THEN SelectSeq(filtered, InRegion)
     ELSE filtered

\* filterPatients: the value it passes to setFilteredPatients
filterPatients(patients, searchQuery, selectedRegion) ==
  LET Matches(patient) ==
        \/ Includes(ToLowerCase(patient.full_name), ToLowerCase(searchQuery))
        \/ Includes(ToLowerCase(patient.email), ToLowerCase(searchQuery))
      InRegion(patient) == patient.region = selectedRegion
      filtered == IF searchQuery # <<>> THEN SelectSeq(patients, Matches)
                  ELSE patients
  IN IF selectedRegion # "all" THEN SelectSeq(filtered, InRegion)
     ELSE filtered

\* two patient rows as the profiles select returns them
SamplePatients ==
  <<[full_name |-> <<"A", "b">>, email |-> <<"a", "@">>, region |-> "AU"],
    [full_name |-> <<"b">>, email |-> <<"B", "@">>, region |-> "NZ"]>>

\* the activities loadRecentActivity builds
SampleActivities ==
  <<[id |-> "1", type |-> "patient_registered"],
    [id |-> "2", type |-> "plan_created"],
    [id |-> "3", type |-> "message_received"],
    [id |-> "4", type |-> "task_completed"]>>

\* useState defaults of each screen
InitialView(s) ==
  IF s = "timeline"
  THEN [loading |-> TRUE, refreshing |-> FALSE, surgeryPlan |-> NoPlan,
        recoveryTasks |-> <<>>, documents |-> <<>>, error |-> NoError]
  ELSE IF s = "analytics"
  THEN [loading |-> TRUE, refreshing |-> FALSE, analytics |-> InitialAnalytics]
  ELSE IF s = "patients"
  THEN [loading |-> TRUE, refreshing |-> FALSE, patients |-> <<>>,
        filteredPatients |-> <<>>, searchQuery |-> <<>>,
        selectedRegion |-> "all"]
  ELSE [loading |-> TRUE, refreshing |-> FALSE,
        stats |-> [totalPatients |-> 0, activePlans |-> 0,
                   unreadMessages |-> 0, upcomingAppointments |-> 0],
        recentPatients |-> <<>>, recentActivity |-> <<>>]

\* a request in flight: the loader awaiting it and what the loader holds
Call(loader, arg) == [call |-> loader, arg |-> arg]

\* the requests a load issues before its first await
FirstCalls(s) ==
  IF s = "timeline"
  THEN IF user = NoUser THEN {}
       ELSE {Call("loadSurgeryPlan", <<>>), Call("loadDocuments", <<>>)}
  ELSE IF s = "analytics" THEN {Call(l, <<>>) : l \in Loaders}
  ELSE IF s = "patients" THEN {Call("loadPatients", <<>>)}
  ELSE {Call("loadStats", <<>>), Call("loadRecentPatients", <<>>)}

\* one reply of each kind for every analytics loader
SampleReplies(loader) ==
  IF loader = "loadPatientStats" THEN FailedCounts \cup {CountReply(2)}
  ELSE FailedRows \cup
       {RowsReply(IF loader = "loadPlanStats"
                  THEN <<[status |-> "planning"], [status |-> "completed"]>>
                  ELSE IF loader = "loadTaskStats"
                  THEN TaskRows(0, 1, [iso |-> 0])
                  ELSE IF loader = "loadRegionStats"
                  THEN <<[region |-> "AU"], [region |-> "AU"]>>
                  ELSE <<[created_at |->
                            [iso |-> [year |-> 2025, month |-> 1,
                                      day |-> 1]]]>>)}

\* what the request c can settle with
Replies(c) ==
  IF c.call = "loadSurgeryPlan"
  THEN FailedRows \cup {RowsReply(<<>>)}
         \cup {RowsReply(<<[id |-> v]>>) : v \in DataVersions}
  ELSE IF c.call = "loadRecoveryTasks"
  THEN FailedRows \cup {RowsReply(<<>>),
                        RowsReply(<<[surgery_plan_id |-> c.arg[1]]>>)}
  ELSE IF c.call = "loadDocuments"
  THEN FailedRows \cup {RowsReply(<<>>)}
         \cup {RowsReply(<<[id |-> v]>>) : v \in DataVersions}
  ELSE IF c.call = "loadPatients"
  THEN FailedRows \cup {RowsReply(SubSeq(SamplePatients, 1, n)) : n \in 0..2}
  ELSE IF c.call = "loadStats"
  THEN FailedCounts \cup {CountReply(1)}
  ELSE IF c.call = "loadRecentPatients"
  THEN FailedRows \cup {RowsReply(SubSeq(SamplePatients, 1, n)) : n \in 0..1}
  ELSE SampleReplies(c.call)

\* no state set, no request issued, no rejection
Nothing(v) == [view |-> v, calls |-> {}, rejects |-> FALSE, applied |-> FALSE]

\* a loader of the timeline at the reply r of its request c: the state it
\* sets, the request it issues next, whether it rethrows
TimelineReturned(v, c, r) ==
  IF r.status # "ok" THEN [Nothing(v) EXCEPT !.rejects = TRUE]
  ELSE IF c.call = "loadSurgeryPlan"
  THEN IF Len(r.data.rows) > 0
       THEN [view |-> [v EXCEPT !.surgeryPlan =
                                   [isNull |-> FALSE,
                                    id |-> r.data.rows[1].id]],
             calls |-> {Call("loadRecoveryTasks", <<r.data.rows[1].id>>)},
             rejects |-> FALSE, applied |-> TRUE]
       ELSE Nothing(v)
  ELSE IF c.call = "loadRecoveryTasks"
  THEN [Nothing([v EXCEPT !.recoveryTasks = r.data.rows])
          EXCEPT !.applied = TRUE]
  ELSE [Nothing([v EXCEPT !.documents = r.data.rows]) EXCEPT !.applied = TRUE]

\* loadPatients calling itself again from its catch block
PatientsReturnedRetrying(v, c, r) ==
  IF r.status # "ok" THEN [Nothing(v) EXCEPT !.calls = {c}]
  ELSE [Nothing([v EXCEPT !.patients = r.data.rows,
                          !.filteredPatients =
                             filterPatients(r.data.rows, v.searchQuery,
                                            v.selectedRegion)])
          EXCEPT !.applied = TRUE]

\* loadPatients at the reply of its select, and the filter effect that the
\* change of patients runs
PatientsReturned(v, c, r) ==
  IF r.status # "ok" THEN Nothing(v)
  ELSE [Nothing([v EXCEPT !.patients = r.data.rows,
                          !.filteredPatients =
                             filterPatients(r.data.rows, v.searchQuery,
                                            v.selectedRegion)])
          EXCEPT !.applied = TRUE]

\* an analytics loader at the reply of its select
AnalyticsReturned(v, c, r) ==
  LET next == LoaderReturned(v.analytics, c.call, r, clock)
  IN [Nothing([v EXCEPT !.analytics = next])
        EXCEPT !.applied = r.status # "throw" /\
                           (c.call = "loadPatientStats" \/ ~r.data.isNull)]

\* count || 0
OrZero(count) == IF count = NullCount THEN 0 ELSE count

\* a loader of the dashboard at the reply of its request: loadStats awaits
\* its four counts one after the other and sets stats after the fourth
DashboardReturned(v, c, r) ==
  IF r.status = "throw" THEN Nothing(v)
  ELSE IF c.call = "loadStats"
  THEN LET counts == Append(c.arg, r.count)
       IN IF Len(counts) < 4
          THEN [Nothing(v) EXCEPT !.calls = {Call("loadStats", counts)}]
          ELSE [Nothing([v EXCEPT !.stats =
                  [totalPatients |-> OrZero(counts[1]),
                   activePlans |-> OrZero(counts[2]),
                   unreadMessages |-> OrZero(counts[3]),
                   upcomingAppointments |-> OrZero(counts[4])]])
                  EXCEPT !.applied = TRUE]
  ELSE IF r.status = "error" THEN Nothing(v)
  ELSE [Nothing([v EXCEPT !.recentPatients = r.data.rows])
          EXCEPT !.applied = TRUE]

Returned(v, c, r) ==
  IF mounted = "timeline" THEN TimelineReturned(v, c, r)
  ELSE IF mounted = "analytics" THEN AnalyticsReturned(v, c, r)
  ELSE IF mounted = "patients" THEN PatientsReturned(v, c, r)
  ELSE DashboardReturned(v, c, r)

\* the request of a load that c is: its loader and the await it stands at
Request(c) == <<c.call, Len(c.arg)>>

\* a load as started: via the mount effect or onRefresh, its Promise.all
\* unsettled, its first requests in flight
NewLoad(via, calls) ==
  [via |-> via, done |-> FALSE, pending |-> calls,
   issued |-> SetToBag({Request(c) : c \in calls})]

\* the end of a load with setLoading(false) as the last line of the try
\* block, not in finally
FinishLoadInTry(v, via, rejected) ==
  LET v1 == IF rejected THEN [v EXCEPT !.error = FailedToLoadTimeline]
            ELSE [v EXCEPT !.loading = FALSE]
  IN IF via = "onRefresh" THEN [v1 EXCEPT !.refreshing = FALSE] ELSE v1

\* the end of a load: the catch and finally of loadData, then the line of
\* onRefresh after its await
FinishLoad(v, via, rejected) ==
  LET v1 == IF rejected THEN [v EXCEPT !.error = FailedToLoadTimeline] ELSE v
      v2 == [v1 EXCEPT !.loading = FALSE]
  IN IF via = "onRefresh" THEN [v2 EXCEPT !.refreshing = FALSE] ELSE v2

NoReply == [status |-> "none"]

\* what the last step was: the handler, and for a reply the request, whether
\* a setter of the screen's data ran, whether the load had already ended,
\* whether the load ended with it; and whether a load has started on top of
\* another since the screen last had nothing in flight
Step(step, c, r, applied, late, ended, overlapped) ==
  [step |-> step, call |-> c, reply |-> r, applied |-> applied, late |-> late,
   ended |-> ended, overlapped |-> overlapped]

\* loadData, loadAnalytics, loadPatients or loadDashboardData up to its
\* first await
StartLoad(v, via) ==
  LET calls == FirstCalls(mounted)
      v1 == IF mounted = "timeline" THEN [v EXCEPT !.error = NoError]
            ELSE IF mounted = "dashboard"
            THEN [v EXCEPT !.recentActivity = SampleActivities]
            ELSE v
  IN /\ BagCardinality(loads) < MaxLiveLoads
     /\ IF calls = {}
        THEN /\ view' = FinishLoad(v1, via, FALSE)
             /\ UNCHANGED loads
        ELSE /\ view' = v1
             /\ loads' = loads (+) SetToBag({NewLoad(via, calls)})
     /\ event' = Step(via, Call("none", <<>>), NoReply, FALSE, FALSE,
                      calls = {}, calls # {} /\ loads # EmptyBag)
     /\ UNCHANGED mounted

\* the effect that runs the load once after the first render; the timeline
\* runs it only with a user
MountEffect ==
  /\ mounted \in DataScreens
  /\ event.step = "constructed"
  /\ mounted = "timeline" => user # NoUser
  /\ StartLoad(view, "mount")

\* onRefresh returning at once while a load has requests in flight
onRefreshUnlessInFlight ==
  /\ mounted \in DataScreens
  /\ ~view.loading
  /\ IF loads # EmptyBag
     THEN /\ event' = Step("onRefresh", Call("none", <<>>), NoReply, FALSE,
                           FALSE, FALSE, event.overlapped)
          /\ UNCHANGED <<mounted, view, loads>>
     ELSE StartLoad([view EXCEPT !.refreshing = TRUE], "onRefresh")

\* onRefresh of the RefreshControl, rendered once loading is false
onRefresh ==
  /\ mounted \in DataScreens
  /\ ~view.loading
  /\ StartLoad([view EXCEPT !.refreshing = TRUE], "onRefresh")

\* the load L after reply r to its request c: the loader runs to its next
\* await or to its end, Promise.all settles on the first rejection or when
\* every loader has ended, and the load is dropped with its last request
Settled(L, c, out) ==
  LET pending == (L.pending \ {c}) \cup out.calls
  IN [L EXCEPT !.pending = pending,
               !.done = @ \/ out.rejects \/ pending = {},
               !.issued = @ (+) SetToBag({Request(n) : n \in out.calls})]

ReplyReturned(L, c, r) ==
  /\ mounted \in DataScreens
  /\ BagIn(L, loads)
  /\ c \in L.pending
  /\ r \in Replies(c)
  /\ LET out == Returned(view, c, r)
         L2 == Settled(L, c, out)
     IN /\ view' = IF ~L.done /\ L2.done
                   THEN FinishLoad(out.view, L.via, out.rejects)
                   ELSE out.view
        /\ loads' = (loads (-) SetToBag({L}))
                      (+) (IF L2.pending = {} THEN EmptyBag
                           ELSE SetToBag({L2}))
        /\ event' = Step("reply", c, r, out.applied, L.done,
                         ~L.done /\ L2.done, event.overlapped)
  /\ UNCHANGED mounted

\* a data screen as constructed, its effect not yet run
LoadsInit ==
  /\ mounted \in DataScreens
  /\ view = InitialView(mounted)
  /\ loads = EmptyBag
  /\ event = Step("constructed", Call("none", <<>>), NoReply, FALSE, FALSE,
                  FALSE, FALSE)

\* no data screen is mounted
LoadsIdle ==
  /\ mounted = "none"
  /\ view = [loading |-> FALSE, refreshing |-> FALSE]
  /\ loads = EmptyBag
  /\ event = Step("constructed", Call("none", <<>>), NoReply, FALSE, FALSE,
                  FALSE, FALSE)

----------------------------------------------------------------------------
(* Analytics screen: the five loaders of one loadAnalytics, in parallel *)

\* loadAnalytics as called: the five selects are in flight
ParallelInit ==
  /\ awaited = Loaders
  /\ received = [l \in Loaders |-> NoReply]

ParallelIdle ==
  /\ awaited = {}
  /\ received = [l \in Loaders |-> NoReply]

\* the select of a loader settles and the loader runs to its end
LoaderSettles(loader, r) ==
  /\ loader \in awaited
  /\ analytics' = LoaderReturned(analytics, loader, r, clock)
  /\ awaited' = awaited \ {loader}
  /\ received' = [received EXCEPT ![loader] = r]
  /\ UNCHANGED <<tasksData, analyticsPc, clock>>

----------------------------------------------------------------------------
(* Analytics screen: the groupings of loadPlanStats, loadRegionStats and
   loadMonthlyStats on the rows their selects return *)

MaxGroupRows == 3

SeqsUpTo(S, n) == UNION {[1..k -> S] : k \in 0..n}

\* a grouping loader and rows its select can return
GroupInputs ==
  {[loader |-> "loadPlanStats", rows |-> r] :
     r \in SeqsUpTo([status : PlanStatuses], MaxGroupRows)}
  \cup {[loader |-> "loadRegionStats", rows |-> r] :
          r \in SeqsUpTo([region : Regions], MaxGroupRows)}
  \cup {[loader |-> "loadMonthlyStats", rows |-> r] :
          r \in SeqsUpTo([created_at : CreatedAts], MaxGroupRows)}

NoGroupInput == [loader |-> "none", rows |-> <<>>]

\* the loader from the reply of its select to its end
LoadGroupStats ==
  /\ groupInput # NoGroupInput
  /\ analyticsPc = "awaiting"
  /\ analytics' = LoaderReturned(analytics, groupInput.loader,
                                 RowsReply(groupInput.rows), clock)
  /\ analyticsPc' = "done"
  /\ UNCHANGED <<tasksData, groupInput, clock>>

----------------------------------------------------------------------------
(* Patient list: search and region filter *)

MaxPatients == 2

\* the text typed into the search input
SearchQueries == {<<>>, <<"a">>, <<"B">>, <<"a", "B">>, <<"@">>}

\* rows of the profiles select: the name or the email or neither matching a
\* query, in one case or the other
PatientRows ==
  {[full_name |-> <<"A", "b">>, email |-> <<"a", "@">>, region |-> "AU"],
   [full_name |-> <<"b">>, email |-> <<"B", "@">>, region |-> "NZ"],
   [full_name |-> <<"b">>, email |-> <<"a", "@">>, region |-> "TH"],
   [full_name |-> <<"A", "b">>, email |-> <<"B", "@">>, region |-> "AU"]}

PatientLists == SeqsUpTo(PatientRows, MaxPatients)

\* an effect run: filterPatients after a change of patients, searchQuery or
\* selectedRegion
FilterEffect(v) ==
  [v EXCEPT !.filteredPatients =
              filterPatients(v.patients, v.searchQuery, v.selectedRegion)]

\* setPatients(data || []) of a load, and the effect
setPatients(data) ==
  /\ mounted = "patients"
  /\ view' = FilterEffect([view EXCEPT !.patients = data])
  /\ UNCHANGED <<mounted, loads, event>>

\* onChangeText of the search input, and the effect
setSearchQuery(text) ==
  /\ mounted = "patients"
  /\ view' = FilterEffect([view EXCEPT !.searchQuery = text])
  /\ UNCHANGED <<mounted, loads, event>>

\* onPress of a region chip, and the effect
setSelectedRegion(region) ==
  /\ mounted = "patients"
  /\ view' = FilterEffect([view EXCEPT !.selectedRegion = region])
  /\ UNCHANGED <<mounted, loads, event>>

\* the patient list after its load
PatientsInit ==
  /\ mounted = "patients"
  /\ \E data \in PatientLists :
       view = FilterEffect([InitialView("patients") EXCEPT
                              !.loading = FALSE, !.patients = data])
  /\ loads = EmptyBag
  /\ event = Step("loaded", Call("none", <<>>), NoReply, FALSE, FALSE, FALSE,
                  FALSE)

----------------------------------------------------------------------------
(* Row-level security on profiles: what evaluating the policies reads *)

\* frames of an evaluation in progress at one time
MaxEvalDepth == 6

Commands == {"SELECT", "INSERT", "UPDATE"}

\* CREATE POLICY ... ON profiles FOR cmd: the functions its USING and
\* WITH CHECK expressions call
Policies ==
  {[name |-> "Users can read own profile", table |-> "profiles",
    cmd |-> "SELECT", calls |-> {"auth.uid"}],
   [name |-> "Users can update own profile", table |-> "profiles",
    cmd |-> "UPDATE", calls |-> {"auth.uid"}],
   [name |-> "System can insert profiles", table |-> "profiles",
    cmd |-> "INSERT", calls |-> {"auth.uid"}],
   [name |-> "Providers can read all profiles", table |-> "profiles",
    cmd |-> "SELECT", calls |-> {"auth.uid", "is_provider"}],
   [name |-> "Providers can update any profile", table |-> "profiles",
    cmd |-> "UPDATE", calls |-> {"auth.uid", "is_provider"}]}

\* is_provider selecting from profiles with the caller's rights, as the
\* dropped policies did
FunctionsReadingProfiles ==
  {[name |-> "auth.uid", reads |-> {}, definer |-> FALSE],
   [name |-> "is_provider", reads |-> {"profiles"}, definer |-> FALSE]}

\* the functions the policies call: the tables the body selects from, and
\* SECURITY DEFINER
Functions ==
  {[name |-> "auth.uid", reads |-> {}, definer |-> FALSE],
   [name |-> "is_provider", reads |-> {"auth.users"}, definer |-> TRUE]}

Frame(kind, name, cmd) == [kind |-> kind, name |-> name, cmd |-> cmd]

\* what evaluating the frame evaluates in turn: a statement or a read under
\* row-level security evaluates the policies of its table and command, a
\* policy calls its functions, a function reads its tables, as their owner
\* when it is SECURITY DEFINER
Evaluates(f) ==
  IF f.kind \in {"statement", "read"}
  THEN {Frame("policy", p.name, p.cmd) :
          p \in {q \in Policies : q.table = f.name /\ q.cmd = f.cmd}}
  ELSE IF f.kind = "policy"
  THEN {Frame("function", fn, f.cmd) :
          fn \in UNION {p.calls : p \in {q \in Policies : q.name = f.name}}}
  ELSE IF f.kind = "function"
  THEN UNION {{Frame(IF fn.definer THEN "ownerRead" ELSE "read", t, "SELECT") :
                 t \in fn.reads} : fn \in {g \in Functions : g.name = f.name}}
  ELSE {}

\* an authenticated caller runs a statement on profiles
RunStatement(cmd) ==
  /\ evalStack = <<>>
  /\ evalStack' = <<Frame("statement", "profiles", cmd)>>
  /\ UNCHANGED <<authUsers, profiles, lastQuery>>

\* the evaluation enters something the innermost frame evaluates
Descend(f) ==
  /\ evalStack # <<>>
  /\ Len(evalStack) < MaxEvalDepth
  /\ f \in Evaluates(evalStack[Len(evalStack)])
  /\ evalStack' = Append(evalStack, f)
  /\ UNCHANGED <<authUsers, profiles, lastQuery>>

\* the innermost frame returns
Return ==
  /\ evalStack # <<>>
  /\ evalStack' = SubSeq(evalStack, 1, Len(evalStack) - 1)
  /\ UNCHANGED <<authUsers, profiles, lastQuery>>

EvalInit == evalStack = <<>>

----------------------------------------------------------------------------
(* Diagnostic screen: runAllTests, testBasicAuth, testDataManipulation *)

\* the account of testEmail and testPassword
TestUser == 1

\* the roles the profile of that account is taken from
TestRoles == {"patient", "admin"}

MaxDocRows == 3

\* the results a test started by its own button may add to
MaxRunResults == 6

RunTests == {"Patient RLS", "Provider RLS", "Data Manipulation"}

\* how an awaited call of the store or of supabase ends: it returns without
\* error, it returns an error, or its promise rejects
Outcomes == {"ok", "error", "throws"}

NothingRan ==
  [viaRunAll |-> FALSE, signedOut |-> FALSE, signedBackIn |-> FALSE,
   deleted |-> FALSE, tests |-> [t \in RunTests |-> "notRun"]]

\* the session a query of a test meets
SessionMet == IF session = NoUser THEN "anonymous" ELSE "authenticated"

\* a test passed its guard and queries the backend
Queried(before, t) == ran' = [before EXCEPT !.tests[t] = SessionMet]

\* a test returned at its guard
Guarded(before, t) == ran' = [before EXCEPT !.tests[t] = "noUser"]

\* the store after a sign-in that succeeded, the profile of the account loaded
SignedInAs(r) ==
  /\ session' = TestUser
  /\ user' = TestUser
  /\ profile' = Profile(r)

SignedOutOfStore ==
  /\ session' = NoUser
  /\ user' = NoUser
  /\ profile' = NoProfile

\* runAllTests after testBasicAuth returned: the user it tests is the one of
\* the render that created the handler
AfterBasicAuth ==
  IF closure.user = NoUser THEN "signBackIn" ELSE "patientRLS"

\* Run All Tests is pressed: setLoading(true), clearResults(), testBasicAuth
\* up to its signIn
runAllTests ==
  /\ runPc \in {"idle", "done"}
  /\ Cardinality(docRows) < MaxDocRows
  /\ closure' = [user |-> user, profile |-> profile]
  /\ testResults' = addTestResult(<<>>, "Basic Auth", "pending",
                                  "Testing basic authentication...")
  /\ ran' = [NothingRan EXCEPT !.viaRunAll = TRUE]
  /\ insertDoc' = 0
  /\ runPc' = "basicSignIn"
  /\ UNCHANGED <<session, docRows, user, profile>>

\* signIn of testBasicAuth settles
BasicSignInReturned(outcome, r) ==
  /\ runPc = "basicSignIn"
  /\ CASE outcome = "ok" ->
            /\ SignedInAs(r)
            /\ testResults' = addTestResult(testResults, "Sign In", "pass",
                                            "Successfully signed in")
            /\ runPc' = "basicPause"
       [] outcome = "error" ->
            /\ testResults' = addTestResult(testResults, "Sign In", "fail",
                                            "Sign in failed")
            /\ runPc' = AfterBasicAuth
            /\ UNCHANGED <<session, user, profile>>
       [] outcome = "throws" ->
            /\ testResults' = addTestResult(testResults, "Basic Auth", "fail",
                                            "Auth test failed")
            /\ runPc' = AfterBasicAuth
            /\ UNCHANGED <<session, user, profile>>
  /\ UNCHANGED <<closure, ran, docRows, insertDoc>>

\* the second of testBasicAuth is over: signOut is called
BasicPauseOver ==
  /\ runPc = "basicPause"
  /\ runPc' = "basicSignOut"
  /\ UNCHANGED <<closure, session, ran, docRows, insertDoc, testResults,
                 user, profile>>

\* signOut of testBasicAuth settles and testBasicAuth returns
BasicSignOutReturned(outcome) ==
  /\ runPc = "basicSignOut"
  /\ CASE outcome = "ok" ->
            /\ SignedOutOfStore
            /\ testResults' = addTestResult(testResults, "Sign Out", "pass",
                                            "Successfully signed out")
            /\ ran' = [ran EXCEPT !.signedOut = TRUE]
       [] outcome = "error" ->
            /\ testResults' = addTestResult(testResults, "Sign Out", "fail",
                                            "Sign out failed")
            /\ UNCHANGED <<session, user, profile, ran>>
       [] outcome = "throws" ->
            /\ testResults' = addTestResult(testResults, "Basic Auth", "fail",
                                            "Auth test failed")
            /\ UNCHANGED <<session, user, profile, ran>>
  /\ runPc' = AfterBasicAuth
  /\ UNCHANGED <<closure, docRows, insertDoc>>

\* signIn of runAllTests settles; what it returned is not looked at, and a
\* rejection ends runAllTests with loading left true
SignBackInReturned(outcome, r) ==
  /\ runPc = "signBackIn"
  /\ CASE outcome = "ok" ->
            /\ SignedInAs(r)
            /\ ran' = [ran EXCEPT !.signedBackIn = TRUE]
            /\ runPc' = "pause"
       [] outcome = "error" ->
            /\ ran' = [ran EXCEPT !.signedBackIn = TRUE]
            /\ runPc' = "pause"
            /\ UNCHANGED <<session, user, profile>>
       [] outcome = "throws" ->
            /\ runPc' = "rejected"
            /\ UNCHANGED <<session, user, profile, ran>>
  /\ UNCHANGED <<closure, docRows, insertDoc, testResults>>

\* the second of runAllTests is over: testPatientRLS is called
PauseOver ==
  /\ runPc = "pause"
  /\ runPc' = "patientRLS"
  /\ UNCHANGED <<closure, session, ran, docRows, insertDoc, testResults,
                 user, profile>>

\* testPatientRLS as runAllTests calls it: its guard, and the session its
\* reads meet
PatientRLSRuns ==
  /\ runPc = "patientRLS"
  /\ IF closure.user = NoUser
     THEN /\ testResults' = addTestResult(testResults, "Patient RLS", "fail",
                                          "No user logged in")
          /\ Guarded(ran, "Patient RLS")
     ELSE /\ testResults' = addTestResult(testResults, "Patient RLS", "pending",
                                          "Testing patient data access...")
          /\ Queried(ran, "Patient RLS")
  /\ runPc' = "providerRLS"
  /\ UNCHANGED <<closure, session, docRows, insertDoc, user, profile>>

\* testProviderRLS as runAllTests calls it
ProviderRLSRuns ==
  /\ runPc = "providerRLS"
  /\ IF closure.user = NoUser \/ closure.profile = NoProfile
     THEN /\ testResults' = addTestResult(testResults, "Provider RLS", "fail",
                                          "No user logged in")
          /\ Guarded(ran, "Provider RLS")
     ELSE /\ testResults' = addTestResult(testResults, "Provider RLS",
                                          "pending", "Testing provider access...")
          /\ Queried(ran, "Provider RLS")
  /\ runPc' = "dataManipulation"
  /\ UNCHANGED <<closure, session, docRows, insertDoc, user, profile>>

\* testDataManipulation up to its first insert: called by runAllTests, or by
\* its own button with the user of the render on the screen
DataManipulationStarts(c, before) ==
  /\ closure' = c
  /\ insertDoc' = 0
  /\ IF c.user = NoUser
     THEN /\ testResults' = addTestResult(testResults, "Data Manipulation",
                                          "fail", "No user logged in")
          /\ Guarded(before, "Data Manipulation")
          /\ runPc' = "done"
     ELSE /\ testResults' = addTestResult(testResults, "Data Manipulation",
                                          "pending",
                                          "Testing data manipulation permissions...")
          /\ Queried(before, "Data Manipulation")
          /\ runPc' = "insertOwn"
  /\ UNCHANGED <<session, docRows, user, profile>>

testDataManipulation ==
  \/ /\ runPc = "dataManipulation"
     /\ DataManipulationStarts(closure, ran)
  \/ /\ runPc \in {"idle", "done"}
     /\ Cardinality(docRows) < MaxDocRows
     /\ Len(testResults) + 3 <= MaxRunResults
     /\ DataManipulationStarts([user |-> user, profile |-> profile],
                               NothingRan)

\* an id the documents table has not given out
NewDocId == Cardinality(docRows) + 1

\* the second insert is made for a patient profile only
AfterOwnDocument ==
  IF closure.profile.role = "patient" THEN "insertOther" ELSE "done"

\* the insert of the own document settles; on success the delete is called
InsertOwnReturned(outcome) ==
  /\ runPc = "insertOwn"
  /\ CASE outcome = "ok" ->
            /\ docRows' = docRows \cup {NewDocId}
            /\ insertDoc' = NewDocId
            /\ testResults' = addTestResult(testResults, "Insert Own Document",
                                            "pass", "Can insert own document")
            /\ runPc' = "deleteOwn"
       [] outcome = "error" ->
            /\ testResults' = addTestResult(testResults, "Insert Own Document",
                                            "fail", "Cannot insert own document")
            /\ runPc' = AfterOwnDocument
            /\ UNCHANGED <<docRows, insertDoc>>
       [] outcome = "throws" ->
            /\ testResults' = addTestResult(testResults, "Data Manipulation",
                                            "fail", "Data manipulation test failed")
            /\ runPc' = "done"
            /\ UNCHANGED <<docRows, insertDoc>>
  /\ UNCHANGED <<closure, session, ran, user, profile>>

\* the delete .eq('id', insertDoc.id) settles; what it returned is not looked at
DeleteOwnReturned(outcome) ==
  /\ runPc = "deleteOwn"
  /\ CASE outcome = "ok" ->
            /\ docRows' = docRows \ {insertDoc}
            /\ ran' = [ran EXCEPT !.deleted = TRUE]
            /\ runPc' = AfterOwnDocument
            /\ UNCHANGED testResults
       [] outcome = "error" ->
            /\ runPc' = AfterOwnDocument
            /\ UNCHANGED <<docRows, ran, testResults>>
       [] outcome = "throws" ->
            /\ testResults' = addTestResult(testResults, "Data Manipulation",
                                            "fail", "Data manipulation test failed")
            /\ runPc' = "done"
            /\ UNCHANGED <<docRows, ran>>
  /\ UNCHANGED <<closure, session, insertDoc, user, profile>>

\* the insert for patient_id 'fake-user-id' settles: documents_patient_id_fkey
\* admits no such row, so it returns an error or rejects
InsertOtherReturned(outcome) ==
  /\ runPc = "insertOther"
  /\ outcome # "ok"
  /\ testResults' =
       IF outcome = "error"
       THEN addTestResult(testResults, "Insert Other Document (Patient)",
                          "pass",
                          "Patient correctly blocked from inserting for others")
       ELSE addTestResult(testResults, "Data Manipulation", "fail",
                          "Data manipulation test failed")
  /\ runPc' = "done"
  /\ UNCHANGED <<closure, session, ran, docRows, insertDoc, user, profile>>

RunInit ==
  /\ runPc = "idle"
  /\ closure = [user |-> user, profile |-> profile]
  /\ session = user
  /\ ran = NothingRan
  /\ docRows = {}
  /\ insertDoc = 0

RunIdle == RunInit

----------------------------------------------------------------------------
(* Root layout, index route and tabs layout *)

SIGN_IN == "/(auth)/sign-in"

\* the routes of the Stack of the root layout that src/ holds a component for
Routes == {"/", "/(tabs)", SIGN_IN, "/(auth)/sign-up"} \cup NAVIGATION_ITEMS

\* the routes behind a gate that tests the user
GatedRoutes == {"/", "/(tabs)"} \cup NAVIGATION_ITEMS

\* what RootLayoutContent returns
RootLayoutContent(l) == IF l THEN "LoadingSpinner" ELSE "Stack"

\* what Index returns
Index(l, u) ==
  IF l THEN "LoadingSpinner"
  ELSE IF u # NoUser THEN "Redirect:/(tabs)"
       ELSE "Redirect:/(auth)/sign-in"

\* what TabLayout returns
TabLayoutUngated(u) == "Tabs"

TabLayout(u) ==
  IF u = NoUser THEN "Redirect:/(auth)/sign-in" ELSE "Tabs"

\* what the component of route r returns
Component(l, u, p, r) ==
  CASE r = "/" -> Index(l, u)
    [] r = "/(tabs)" -> TabLayout(u)
    [] r \in NAVIGATION_ITEMS -> ProviderLayoutRender(u, p)
    [] r = SIGN_IN -> "SignInScreen"
    [] OTHER -> "SignUpScreen"

\* the route on top once the component of route r has rendered
Redirected(l, u, p, r) == RouteAfterRender(Component(l, u, p, r), r)

\* the route and the screen once every Redirect has been followed: the
\* longest chain is the index or a provider route, the tabs, the sign-in
Shown(l, u, p, r) ==
  LET r1 == Redirected(l, u, p, r)
      r2 == Redirected(l, u, p, r1)
      r3 == Redirected(l, u, p, r2)
  IN  IF RootLayoutContent(l) = "LoadingSpinner"
      THEN [route |-> r, screen |-> "LoadingSpinner"]
      ELSE [route |-> r3, screen |-> Component(l, u, p, r3)]

\* what ProviderLayout returned if the render from route r mounted it
ProviderViewAfter(l, u, p, r) ==
  IF ~l /\ r \in NAVIGATION_ITEMS
  THEN ProviderLayoutRender(u, p)
  ELSE "unmounted"

\* the root layout renders for the holder's state and the route
RootRenders ==
  /\ route' = Shown(authLoading', user', profile', route).route
  /\ onScreen' = Shown(authLoading', user', profile', route).screen
  /\ providerView' = ProviderViewAfter(authLoading', user', profile', route)

\* the holder has looked the stored session up
SessionRestored(s) ==
  /\ authLoading
  /\ authLoading' = FALSE
  /\ user' = s[1]
  /\ profile' = s[2]
  /\ RootRenders

\* the holder reports loading again while a call of its own is under way
HolderBusy ==
  /\ ~authLoading
  /\ authLoading' = TRUE
  /\ UNCHANGED <<user, profile>>
  /\ RootRenders

\* the holder receives a signed-in user; its profile is not loaded yet
SessionStarted(u) ==
  /\ ~authLoading
  /\ user = NoUser
  /\ user' = u
  /\ profile' = NoProfile
  /\ UNCHANGED authLoading
  /\ RootRenders

\* the holder receives the profile row of its user
ProfileArrived(r) ==
  /\ ~authLoading
  /\ user # NoUser
  /\ profile.isNull
  /\ profile' = Profile(r)
  /\ UNCHANGED <<authLoading, user>>
  /\ RootRenders

\* the holder is told the session ended
SessionEnded ==
  /\ ~authLoading
  /\ user # NoUser
  /\ user' = NoUser
  /\ profile' = NoProfile
  /\ UNCHANGED authLoading
  /\ RootRenders

\* a link, a router call or the address bar opens route href
Navigate(href) ==
  /\ href # route
  /\ UNCHANGED <<authLoading, user, profile>>
  /\ route' = Shown(authLoading, user, profile, href).route
  /\ onScreen' = Shown(authLoading, user, profile, href).screen
  /\ providerView' = ProviderViewAfter(authLoading, user, profile, href)

\* the app is opened at any route, the holder still loading
RootInit ==
  /\ authLoading = TRUE
  /\ route \in Routes
  /\ onScreen = RootLayoutContent(authLoading)

RootIdle ==
  /\ authLoading = FALSE
  /\ onScreen = "none"

----------------------------------------------------------------------------
(* Provider dashboard: upcoming appointments *)

MaxTableRows == 2

\* tomorrow.setDate(tomorrow.getDate() + 7), the clock counting days
DaysAhead == 7

\* a row of recovery_tasks, as far as loadStats filters on it
\* due dates before the clock starts, within its range, a week past its end
\* and later than that
DueDates == {0, MaxTime, MaxTime + DaysAhead, MaxTime + DaysAhead + 1}

TableRows ==
  [task_type : {"appointment", "exercise"}, completed : BOOLEAN,
   due_date : {[iso |-> t] : t \in DueDates}]

\* the count of the head select .eq('task_type', 'appointment')
\* .eq('completed', false).lte('due_date', tomorrow.toISOString())
UpcomingAppointments(rows, now) ==
  Cardinality({i \in 1..Len(rows) :
                 /\ rows[i].task_type = "appointment"
                 /\ rows[i].completed = FALSE
                 /\ NewDate(rows[i].due_date) <= now + DaysAhead})

\* something other than a reply happened to the table or the clock
TableStep ==
  event' = Step("table", Call("none", <<>>), NoReply, FALSE, FALSE, FALSE,
                FALSE)

\* the fourth head select of loadStats returns, the first three having
\* returned c1, c2 and c3: stats is set, or the rejection is logged
UpcomingAppointmentsReturned(c1, c2, c3, status) ==
  LET c == Call("loadStats", <<c1, c2, c3>>)
      r == IF status = "ok"
           THEN CountReply(UpcomingAppointments(taskTable, clock))
           ELSE [status |-> status, count |-> NullCount]
      after == DashboardReturned(view, c, r)
  IN  /\ view' = after.view
      /\ event' = Step("reply", c, r, after.applied, FALSE, TRUE, FALSE)
      /\ UNCHANGED <<mounted, loads, taskTable, clock>>

\* a patient completes a task
TaskCompleted(i) ==
  /\ i \in 1..Len(taskTable)
  /\ taskTable[i].completed = FALSE
  /\ taskTable' = [taskTable EXCEPT ![i].completed = TRUE]
  /\ TableStep
  /\ UNCHANGED <<mounted, view, loads, clock>>

\* a day passes
DayPasses ==
  /\ Tick
  /\ TableStep
  /\ UNCHANGED <<mounted, view, loads, taskTable>>

TableInit ==
  /\ mounted = "dashboard"
  /\ view = InitialView(mounted)
  /\ loads = EmptyBag
  /\ event = Step("constructed", Call("none", <<>>), NoReply, FALSE, FALSE,
                  FALSE, FALSE)
  /\ taskTable \in SeqsUpTo(TableRows, MaxTableRows)

TableIdle == taskTable = <<>>

\* nothing of the diagnostic run, the root layout or the recovery_tasks
\* table is under way
MoreIdle == RunIdle /\ RootIdle /\ TableIdle

\* nothing of the data screens, the parallel loaders, the groupings or the
\* policy evaluation is under way
RestIdle ==
  /\ LoadsIdle /\ ParallelIdle /\ groupInput = NoGroupInput /\ EvalInit
  /\ MoreIdle

----------------------------------------------------------------------------
(* The specifications *)

vars == <<authVars, clock, analyticsVars, timelineVars, rlsVars, storeVars,
          diagVars, gateVars, restVars>>

AuthStep ==
  AuthNext /\ UNCHANGED <<clock, analyticsVars, timelineVars, rlsVars,
                          storeVars, diagVars, gateVars, restVars>>

AnalyticsNext ==
  LoadTaskStats /\ UNCHANGED <<authVars, timelineVars, rlsVars, storeVars,
                               diagVars, gateVars, restVars>>

TimelineNext ==
  /\ \/ \E data \in RecoveryTaskResponses : setRecoveryTasks(data)
     \/ RenderTimeline
     \/ Tick /\ UNCHANGED timelineVars
  /\ UNCHANGED <<authVars, analyticsVars, rlsVars, storeVars, diagVars,
                 gateVars, restVars>>

RlsNext ==
  /\ \/ \E uid \in UserIds : SelectProfiles(uid)
     \/ \E uid \in UserIds, target \in UserIds, row \in ProfileRows :
          UpdateProfile(uid, target, row)
     \/ \E uid \in UserIds, row \in ProfileRows : InsertProfile(uid, row)
  /\ UNCHANGED <<authVars, clock, analyticsVars, timelineVars, storeVars,
                 diagVars, gateVars, restVars>>

DiagNext ==
  /\ \/ testPatientRLS
     \/ \E resp \in OwnProfileResponses : OwnProfileReturned(resp)
     \/ \E count \in AllProfilesResponses : AllProfilesReturned(count)
     \/ \E data \in OwnedResponses : DocumentsReturned(data)
     \/ \E data \in OwnedResponses : SurgeryPlansReturned(data)
     \/ PatientRLSThrows
     \/ clearResults
  /\ UNCHANGED <<authVars, clock, analyticsVars, timelineVars, rlsVars,
                 storeVars, gateVars, restVars>>

GateNext ==
  /\ \/ \E u \in UserIds : StoreSignedIn(u)
     \/ \E r \in Roles : StoreProfileLoaded(r)
     \/ StoreSignedOut
     \/ \E href \in NAVIGATION_ITEMS : EnterProvider(href)
     \/ \E href \in NAVIGATION_ITEMS : handleNavigation(href)
     \/ \E open \in BOOLEAN : setSidebarOpen(open)
     \/ handleSignOut
  /\ UNCHANGED <<authVars, clock, analyticsVars, timelineVars, rlsVars,
                 diagVars, restVars>>

\* the auth forms are behind: a session is signed in and the tabs are on top
AuthSignedIn ==
  /\ screen = "tabs"
  /\ email = <<>>
  /\ password = <<>>
  /\ confirmPassword = <<>>
  /\ fullName = <<>>
  /\ loading = FALSE
  /\ errors = EmptyObject
  /\ authPc = "idle"
  /\ authCall = NoCall
  /\ authResponse = NoResponse
  /\ navLog = <<>>
  /\ lastStep = "mount"

\* the store of a signed-in user
StoreSession ==
  /\ user = 1
  /\ profile = Profile(IF mounted \in {"analytics", "patients", "dashboard"}
                       THEN "admin" ELSE "patient")

LoadsNext ==
  /\ \/ MountEffect
     \/ onRefresh
     \/ \E L \in BagToSet(loads) : \E c \in L.pending : \E r \in Replies(c) :
          ReplyReturned(L, c, r)
  /\ UNCHANGED <<authVars, clock, analyticsVars, timelineVars, rlsVars,
                 storeVars, diagVars, gateVars, parallelVars, groupVars,
                 evalVars, moreVars>>

\* the replies alone: what the network owes a screen
RepliesArrive ==
  /\ \E L \in BagToSet(loads) : \E c \in L.pending : \E r \in Replies(c) :
       ReplyReturned(L, c, r)
  /\ UNCHANGED <<authVars, clock, analyticsVars, timelineVars, rlsVars,
                 storeVars, diagVars, gateVars, parallelVars, groupVars,
                 evalVars, moreVars>>

EffectsRun ==
  /\ MountEffect
  /\ UNCHANGED <<authVars, clock, analyticsVars, timelineVars, rlsVars,
                 storeVars, diagVars, gateVars, parallelVars, groupVars,
                 evalVars, moreVars>>

\* a screen from its construction on, nothing pulled to refresh
MountNext ==
  \/ EffectsRun
  \/ RepliesArrive

RequestsNext ==
  \/ AuthStep
  \/ LoadsNext

ParallelNext ==
  /\ \E l \in Loaders : \E r \in SampleReplies(l) : LoaderSettles(l, r)
  /\ UNCHANGED <<authVars, timelineVars, rlsVars, storeVars, diagVars,
                 gateVars, loadVars, groupVars, evalVars,
                 moreVars>>

GroupNext ==
  /\ LoadGroupStats
  /\ UNCHANGED <<authVars, timelineVars, rlsVars, storeVars, diagVars,
                 gateVars, loadVars, parallelVars, evalVars,
                 moreVars>>

PatientsNext ==
  /\ \/ \E data \in PatientLists : setPatients(data)
     \/ \E text \in SearchQueries : setSearchQuery(text)
     \/ \E region \in Regions \cup {"all"} : setSelectedRegion(region)
  /\ UNCHANGED <<authVars, clock, analyticsVars, timelineVars, rlsVars,
                 storeVars, diagVars, gateVars, parallelVars, groupVars,
                 evalVars, moreVars>>

PolicyNext ==
  /\ \/ \E cmd \in Commands : RunStatement(cmd)
     \/ /\ evalStack # <<>>
        /\ \E f \in Evaluates(evalStack[Len(evalStack)]) : Descend(f)
     \/ Return
  /\ UNCHANGED <<authVars, clock, analyticsVars, timelineVars, storeVars,
                 diagVars, gateVars, loadVars, parallelVars, groupVars,
                 moreVars>>

InitAuth ==
  /\ AuthInit /\ clock = 0 /\ AnalyticsIdle /\ TimelineInit /\ RlsIdle
  /\ StoreInit /\ DiagInit /\ GateIdle /\ RestIdle

SpecAuth == InitAuth /\ [][AuthStep]_vars

InitAnalytics ==
  /\ AuthIdle /\ clock \in 0..MaxTime /\ AnalyticsInit /\ TimelineInit
  /\ RlsIdle /\ StoreInit /\ DiagInit /\ GateIdle /\ RestIdle

SpecAnalytics == InitAnalytics /\ [][AnalyticsNext]_vars

InitTimeline ==
  /\ AuthIdle /\ clock = 0 /\ AnalyticsIdle /\ TimelineInit /\ RlsIdle
  /\ StoreInit /\ DiagInit /\ GateIdle /\ RestIdle

SpecTimeline == InitTimeline /\ [][TimelineNext]_vars

InitRls ==
  /\ AuthIdle /\ clock = 0 /\ AnalyticsIdle /\ TimelineInit /\ RlsInit
  /\ StoreInit /\ DiagInit /\ GateIdle /\ RestIdle

SpecRls == InitRls /\ [][RlsNext]_vars

\* the diagnostic screen under any session the store can hold
InitDiag ==
  /\ AuthIdle /\ clock = 0 /\ AnalyticsIdle /\ TimelineInit /\ RlsIdle
  /\ StoreAnySession /\ DiagInit /\ GateIdle /\ RestIdle

SpecDiag == InitDiag /\ [][DiagNext]_vars

InitGate ==
  /\ AuthIdle /\ clock = 0 /\ AnalyticsIdle /\ TimelineInit /\ RlsIdle
  /\ StoreInit /\ DiagInit /\ GateInit /\ RestIdle

SpecGate == InitGate /\ [][GateNext]_vars

InitLoads ==
  /\ LoadsInit /\ StoreSession
  /\ AuthSignedIn /\ clock = 1 /\ AnalyticsIdle /\ TimelineInit /\ RlsIdle
  /\ DiagInit /\ GateIdle
  /\ ParallelIdle /\ groupInput = NoGroupInput /\ EvalInit /\ MoreIdle

SpecLoads == InitLoads /\ [][LoadsNext]_vars

\* a screen from its mount until loading is false; onRefresh belongs to the
\* RefreshControl, which is rendered only once loading is false, and no
\* handler sets loading back to true. The effect runs after the first render
\* and every request in flight is answered.
SpecMount ==
  InitLoads /\ [][MountNext]_vars /\ WF_vars(RepliesArrive) /\ WF_vars(EffectsRun)

\* the screens whose state is the list a select returned
ListScreens == {"timeline", "patients"}

InitListLoads == InitLoads /\ mounted \in ListScreens

SpecListLoads == InitListLoads /\ [][LoadsNext]_vars

\* an auth form or a list screen on top
InitRequests ==
  \/ InitAuth
  \/ InitListLoads

SpecRequests == InitRequests /\ [][RequestsNext]_vars

InitParallel ==
  /\ AuthIdle /\ clock \in 0..MaxTime /\ AnalyticsIdle /\ TimelineInit
  /\ RlsIdle /\ StoreInit /\ DiagInit /\ GateIdle
  /\ LoadsIdle /\ ParallelInit /\ groupInput = NoGroupInput /\ EvalInit /\ MoreIdle

SpecParallel == InitParallel /\ [][ParallelNext]_vars

InitGroup ==
  /\ AuthIdle /\ clock = 0 /\ AnalyticsIdle /\ TimelineInit
  /\ RlsIdle /\ StoreInit /\ DiagInit /\ GateIdle
  /\ LoadsIdle /\ ParallelIdle /\ groupInput \in GroupInputs /\ EvalInit /\ MoreIdle

SpecGroup == InitGroup /\ [][GroupNext]_vars

InitPatients ==
  /\ PatientsInit /\ StoreSession
  /\ AuthSignedIn /\ clock = 0 /\ AnalyticsIdle /\ TimelineInit /\ RlsIdle
  /\ DiagInit /\ GateIdle
  /\ ParallelIdle /\ groupInput = NoGroupInput /\ EvalInit /\ MoreIdle

SpecPatients == InitPatients /\ [][PatientsNext]_vars

InitPolicy ==
  /\ AuthIdle /\ clock = 0 /\ AnalyticsIdle /\ TimelineInit /\ RlsInit
  /\ StoreInit /\ DiagInit /\ GateIdle /\ RestIdle

SpecPolicy == InitPolicy /\ [][PolicyNext]_vars

\* the diagnostic screen with the tests of runAllTests, under any session
RunNext ==
  /\ \/ runAllTests
     \/ \E outcome \in Outcomes, r \in TestRoles :
          BasicSignInReturned(outcome, r)
     \/ BasicPauseOver
     \/ \E outcome \in Outcomes : BasicSignOutReturned(outcome)
     \/ \E outcome \in Outcomes, r \in TestRoles :
          SignBackInReturned(outcome, r)
     \/ PauseOver
     \/ PatientRLSRuns
     \/ ProviderRLSRuns
     \/ testDataManipulation
     \/ \E outcome \in Outcomes : InsertOwnReturned(outcome)
     \/ \E outcome \in Outcomes : DeleteOwnReturned(outcome)
     \/ \E outcome \in Outcomes : InsertOtherReturned(outcome)
  /\ UNCHANGED <<authVars, clock, analyticsVars, timelineVars, rlsVars,
                 diagPc, documents, surgeryPlans, gateVars, loadVars,
                 parallelVars, groupVars, evalVars, rootVars, tableVars>>

InitRun ==
  /\ AuthIdle /\ clock = 0 /\ AnalyticsIdle /\ TimelineInit /\ RlsIdle
  /\ StoreAnySession /\ DiagInit /\ GateIdle
  /\ LoadsIdle /\ ParallelIdle /\ groupInput = NoGroupInput /\ EvalInit
  /\ RunInit /\ RootIdle /\ TableIdle

SpecRun == InitRun /\ [][RunNext]_vars

\* the root layout and the gates of the routes, from the start of the app
RoutesNext ==
  /\ \/ \E s \in Sessions : SessionRestored(s)
     \/ HolderBusy
     \/ \E u \in UserIds : SessionStarted(u)
     \/ \E r \in Roles : ProfileArrived(r)
     \/ SessionEnded
     \/ \E href \in Routes : Navigate(href)
  /\ UNCHANGED <<authVars, clock, analyticsVars, timelineVars, rlsVars,
                 diagVars, platform, sidebarOpen, loadVars, parallelVars,
                 groupVars, evalVars, runVars, tableVars>>

InitRoutes ==
  /\ AuthIdle /\ clock = 0 /\ AnalyticsIdle /\ TimelineInit /\ RlsIdle
  /\ StoreInit /\ DiagInit
  /\ platform = "web" /\ providerView = "unmounted" /\ sidebarOpen = FALSE
  /\ LoadsIdle /\ ParallelIdle /\ groupInput = NoGroupInput /\ EvalInit
  /\ RunIdle /\ RootInit /\ TableIdle

SpecRoutes == InitRoutes /\ [][RoutesNext]_vars

\* the provider dashboard's count of upcoming appointments over the table
AppointmentsNext ==
  /\ \/ \E c \in {NullCount, 1} : \E status \in {"ok", "error", "throw"} :
          UpcomingAppointmentsReturned(c, c, c, status)
     \/ \E i \in 1..MaxTableRows : TaskCompleted(i)
     \/ DayPasses
  /\ UNCHANGED <<authVars, analyticsVars, timelineVars, rlsVars, storeVars,
                 diagVars, gateVars, parallelVars, groupVars, evalVars,
                 runVars, rootVars>>

InitAppointments ==
  /\ TableInit /\ StoreSession
  /\ AuthSignedIn /\ clock \in 0..MaxTime /\ AnalyticsIdle /\ TimelineInit
  /\ RlsIdle /\ DiagInit /\ GateIdle
  /\ ParallelIdle /\ groupInput = NoGroupInput /\ EvalInit
  /\ RunIdle /\ RootIdle

SpecAppointments == InitAppointments /\ [][AppointmentsNext]_vars

----------------------------------------------------------------------------
(* Properties of the auth forms *)

ValidEmail == <<"a", "@", "a", ".", "a">>

\* the value of key k of the errors object, <<>> when the key is absent
ErrorOf(k) == IF k \in DOMAIN errors THEN errors[k] ELSE <<>>

\* C1: a sign-in submission with an empty password field sets the password
\* error to 'Password is required' and issues no signIn call, whatever the
\* email field holds.
C1_EmptyPasswordBlocksSignIn ==
  (screen = "signIn" /\ lastStep = "handleSignIn" /\ password = <<>>)
    => /\ ErrorOf("password") = PasswordRequired
       /\ authCall = NoCall
       /\ authPc = "idle"
       /\ ~loading

C1_Witness ==
  /\ screen = "signIn"
  /\ lastStep = "handleSignIn"
  /\ password = <<>>
  /\ email = ValidEmail
  /\ DOMAIN errors = {"password"}
  /\ authCall = NoCall

\* C2 as stated: a sign-up submission whose password and confirmation differ
\* shows 'Passwords do not match' on the confirmation field and issues no call.
C2_MismatchAlwaysSaysDoNotMatch ==
  (screen = "signUp" /\ lastStep = "handleSignUp"
     /\ password # confirmPassword)
    => /\ ErrorOf("confirmPassword") = PasswordsDoNotMatch
       /\ authCall = NoCall

\* C2 amended: a sign-up submission whose password and confirmation differ
\* issues no signUp call; the confirmation error is 'Passwords do not match'
\* when the confirmation field is non-empty and 'Please confirm your password'
\* when it is empty.
C2_MismatchBlocksSignUp ==
  (screen = "signUp" /\ lastStep = "handleSignUp"
     /\ password # confirmPassword)
    => /\ ErrorOf("confirmPassword") =
            (IF confirmPassword = <<>> THEN ConfirmRequired
             ELSE PasswordsDoNotMatch)
       /\ authCall = NoCall
       /\ authPc = "idle"

C2_Witness ==
  /\ screen = "signUp"
  /\ lastStep = "handleSignUp"
  /\ fullName = <<" ", "n", " ">>
  /\ email = ValidEmail
  /\ password = Rep("p", MinPasswordLength)
  /\ confirmPassword = Rep("q", MinPasswordLength)
  /\ DOMAIN errors = {"confirmPassword"}
  /\ errors["confirmPassword"] = PasswordsDoNotMatch
  /\ authCall = NoCall

\* the sign-in fields pass local validation
SignInFieldsValid ==
  /\ email # <<>>
  /\ EmailRegexTest(email)
  /\ password # <<>>

\* the sign-up fields pass local validation
SignUpFieldsValid ==
  /\ Trim(fullName) # <<>>
  /\ email # <<>>
  /\ EmailRegexTest(email)
  /\ Len(password) >= MinPasswordLength
  /\ confirmPassword # <<>>
  /\ confirmPassword = password

\* C5: signIn is called only for a non-empty email matching the pattern and a
\* non-empty password; signUp only for a non-empty trimmed name, such an email,
\* a password of at least 8 characters and an equal non-empty confirmation.
\* Any other submission stops with field-level messages set and no call made.
C5_CallOnlyAfterValidation ==
  /\ (screen = "signIn" /\ lastStep = "handleSignIn") =>
       IF SignInFieldsValid
       THEN authCall = [fn |-> "signIn", email |-> email,
                        password |-> password]
       ELSE /\ authCall = NoCall
            /\ authPc = "idle"
            /\ DOMAIN errors # {}
            /\ DOMAIN errors \subseteq {"email", "password"}
  /\ (screen = "signUp" /\ lastStep = "handleSignUp") =>
       IF SignUpFieldsValid
       THEN /\ authCall.fn = "signUp"
            /\ authCall.email = email
            /\ authCall.password = password
       ELSE /\ authCall = NoCall
            /\ authPc = "idle"
            /\ DOMAIN errors # {}
            /\ DOMAIN errors \subseteq
                 {"fullName", "email", "password", "confirmPassword"}
  /\ authCall.fn = "signIn" =>
       /\ authCall.email # <<>>
       /\ EmailRegexTest(authCall.email)
       /\ authCall.password # <<>>
  /\ authCall.fn = "signUp" =>
       /\ authCall.full_name # <<>>
       /\ authCall.email # <<>>
       /\ EmailRegexTest(authCall.email)
       /\ Len(authCall.password) >= MinPasswordLength

C5_Witness ==
  /\ screen = "signUp"
  /\ lastStep = "handleSignUp"
  /\ fullName = <<" ", "n", " ">>
  /\ password = Rep("p", MinPasswordLength - 1)
  /\ confirmPassword = password
  /\ email = ValidEmail
  /\ DOMAIN errors = {"password"}
  /\ authCall = NoCall

\* the message of the error the last auth call returned
ReturnedMessage == authResponse.error.message

\* the returned error carries a non-empty message
HasText == authResponse.error.hasMessage /\ ReturnedMessage # <<>>

\* C9: a returned error is shown verbatim unless it contains a known phrase.
\* Sign-in: 'Invalid login credentials' or 'Invalid email or password' gives
\* the invalid-credentials text, otherwise 'Email not confirmed' gives the
\* confirm-your-email text.  Sign-up: 'already registered' or 'already exists'
\* gives the account-exists text, and only otherwise 'Password', then 'Email',
\* put the verbatim message on that field.  The fallback text appears only
\* for an empty message, and a thrown exception always gives the
\* unexpected-error text.
C9_ErrorMapping ==
  /\ (lastStep = "signInSettled" /\ authResponse.kind = "error") =>
       LET m == ReturnedMessage
           invalid == HasText /\
                        (\/ Includes(m, <<"Invalid", "login", "credentials">>)
                         \/ Includes(m, <<"Invalid", "email", "or", "password">>))
           unconfirmed == HasText /\ Includes(m, <<"Email", "not", "confirmed">>)
       IN /\ DOMAIN errors = {"general"}
          /\ invalid => errors["general"] = InvalidCredentialsText
          /\ (unconfirmed /\ ~invalid) => errors["general"] = ConfirmEmailText
          /\ (HasText /\ ~invalid /\ ~unconfirmed) => errors["general"] = m
          /\ ~HasText => errors["general"] = SignInFailedText
          /\ errors["general"] = SignInFailedText => ~HasText
  /\ (lastStep = "signUpSettled" /\ authResponse.kind = "error") =>
       LET m == ReturnedMessage
           exists == HasText /\ (\/ Includes(m, <<"already", "registered">>)
                                 \/ Includes(m, <<"already", "exists">>))
           pw == HasText /\ Includes(m, <<"Password">>)
           em == HasText /\ Includes(m, <<"Email">>)
       IN /\ exists => errors = Put(EmptyObject, "general", AccountExistsText)
          /\ (pw /\ ~exists) => errors = Put(EmptyObject, "password", m)
          /\ (em /\ ~pw /\ ~exists) => errors = Put(EmptyObject, "email", m)
          /\ (HasText /\ ~exists /\ ~pw /\ ~em) =>
               errors = Put(EmptyObject, "general", m)
          /\ ~HasText => errors = Put(EmptyObject, "general", SignUpFailedText)
          /\ ErrorOf("general") = SignUpFailedText => ~HasText
  /\ (lastStep \in {"signInSettled", "signUpSettled"}
        /\ authResponse.kind = "throw") =>
       errors = Put(EmptyObject, "general", UnexpectedErrorText)

C9_Witness ==
  /\ lastStep = "signUpSettled"
  /\ authResponse.kind = "error"
  /\ authResponse.error.message =
       <<"Password", "should", "be", "longer", "already", "registered">>
  /\ errors = Put(EmptyObject, "general", AccountExistsText)

\* the step in which an awaited auth call settles
AuthSettles == authPc = "awaiting" /\ authPc' = "idle"

\* C10: navigation happens exactly once per attempt, in the step in which
\* the auth call resolved without an error: to '/(tabs)' for sign-in and to
\* '/(auth)/onboarding' for sign-up.  No other step navigates: not a failed
\* validation, not a returned error, not a thrown call.
C10_NavigateOnceOnSuccess ==
  [][ IF AuthSettles /\ authResponse'.kind = "ok"
      THEN /\ navLog = <<>>
           /\ navLog' = <<IF authCall.fn = "signIn" THEN "/(tabs)"
                          ELSE "/(auth)/onboarding">>
      ELSE navLog' = navLog ]_vars

C10_Witness ==
  /\ screen = "tabs"
  /\ lastStep = "signInSettled"
  /\ authResponse.kind = "ok"
  /\ navLog = <<"/(tabs)">>

----------------------------------------------------------------------------
(* Properties of the timeline badge *)

\* C3: every task shows exactly one badge: 'Completed' when completed is
\* true, 'Overdue' exactly when completed is false and due_date is strictly
\* before the time of the render, 'Pending' in every other case, a due_date
\* equal to that time included.
C3_TaskBadge ==
  /\ Len(badges) = Len(recoveryTasks)
  /\ \A i \in 1..Len(recoveryTasks) :
       LET task == recoveryTasks[i]
           due == task.due_date.iso
       IN /\ badges[i] \in {"Completed", "Overdue", "Pending"}
          /\ task.completed => badges[i] = "Completed"
          /\ badges[i] = "Overdue" <=> (~task.completed /\ due < renderedAt)
          /\ badges[i] = "Pending" <=> (~task.completed /\ due >= renderedAt)
          /\ (~task.completed /\ due = renderedAt) => badges[i] = "Pending"

C3_Witness ==
  /\ Len(recoveryTasks) = 2
  /\ renderedAt = 1
  /\ ~recoveryTasks[1].completed
  /\ recoveryTasks[1].due_date.iso = 0
  /\ ~recoveryTasks[2].completed
  /\ recoveryTasks[2].due_date.iso = 1
  /\ badges = <<"Overdue", "Pending">>

----------------------------------------------------------------------------
(* Properties of the analytics task statistics *)

\* round(completed / total x 100), a half going up, in exact arithmetic
ExactRate(completed, total) == (200 * completed + total) \div (2 * total)

\* the number of fetched tasks with completed true
CompletedCount(rows) == Cardinality({i \in 1..Len(rows) : rows[i].completed})

\* C4: for every fetched task set, taskCompletionRate is
\* round(completed / total x 100) with halves rounded up, and 0 when total
\* is 0.
C4_CompletionRate ==
  (analyticsPc = "done" /\ ~tasksData.isNull) =>
     analytics.taskCompletionRate =
       (IF Len(tasksData.rows) = 0 THEN 0
        ELSE ExactRate(CompletedCount(tasksData.rows), Len(tasksData.rows)))

----------------------------------------------------------------------------
(* Properties of the profiles policies *)

\* the caller's auth metadata role is one of the four provider roles
CallerIsProvider ==
  authUsers[lastQuery.uid] \in {"nurse", "coordinator", "admin", "sales"}

\* the rows whose id is uid
OwnRows(uid, rows) == {r \in rows : r.id = uid}

\* C6: a caller that is not a provider selects and updates only the profile
\* row whose id is its own uid and inserts only a row with its own uid as
\* id; a caller that is a provider selects and updates every profile row.
C6_ProfilesPolicies ==
  /\ (lastQuery.op = "select" /\ ~CallerIsProvider) =>
        lastQuery.rows = OwnRows(lastQuery.uid, profiles)
  /\ (lastQuery.op = "select" /\ CallerIsProvider) =>
        lastQuery.rows = profiles
  /\ (lastQuery.op = "update" /\ ~CallerIsProvider) =>
        /\ \A r \in lastQuery.rows : r.id = lastQuery.uid
        /\ (lastQuery.rows # {}) => lastQuery.row.id = lastQuery.uid
        /\ (lastQuery.target # lastQuery.uid) => lastQuery.rows = {}
  /\ (lastQuery.op = "update" /\ CallerIsProvider) =>
        IF lastQuery.ok
        THEN \A r \in profiles : r.id = lastQuery.target => r = lastQuery.row
        ELSE /\ lastQuery.row.id # lastQuery.target
             /\ \E r \in profiles : r.id = lastQuery.row.id
  /\ (lastQuery.op = "insert" /\ lastQuery.ok) =>
        lastQuery.row.id = lastQuery.uid

C6_Witness ==
  /\ lastQuery.op = "select"
  /\ ~CallerIsProvider
  /\ Cardinality(profiles) = MaxUsers
  /\ Cardinality(lastQuery.rows) = 1

----------------------------------------------------------------------------
(* Properties of the diagnostic screen *)

\* the session is a patient-role session
PatientSession == user # NoUser /\ ~profile.isNull /\ profile.role = "patient"

\* the read returned a row of another patient
HasOtherPatientsRow(data) ==
  /\ ~data.isNull
  /\ \E i \in 1..Len(data.rows) : data.rows[i].patient_id # user

\* the statuses the step adds under the name test
AddedStatuses(test) ==
  {testResults'[i].status :
     i \in {k \in (Len(testResults) + 1)..Len(testResults') :
              testResults'[k].test = test}}

\* C7: in a patient-role session the step that receives the documents read
\* adds one 'Documents RLS' result, 'fail' exactly when the read returned a
\* row whose patient_id is not the session user's id and 'pass' exactly when
\* it returned none; likewise the surgery_plans read and 'Surgery Plans RLS'.
C7_OwnershipChecks ==
  [][ PatientSession =>
        /\ (diagPc = "documents" /\ diagPc' = "surgeryPlans") =>
              /\ Len(testResults') = Len(testResults) + 1
              /\ AddedStatuses("Documents RLS") =
                   {IF HasOtherPatientsRow(documents') THEN "fail" ELSE "pass"}
        /\ (diagPc = "surgeryPlans" /\ diagPc' = "done") =>
              /\ Len(testResults') = Len(testResults) + 1
              /\ AddedStatuses("Surgery Plans RLS") =
                   {IF HasOtherPatientsRow(surgeryPlans') THEN "fail"
                    ELSE "pass"} ]_vars

C7_Witness ==
  /\ PatientSession
  /\ diagPc = "done"
  /\ ~HasOtherPatientsRow(surgeryPlans)
  /\ ~surgeryPlans.isNull
  /\ Len(surgeryPlans.rows) = MaxDiagRows
  /\ Len(testResults) = 5
  /\ testResults[4].test = "Documents RLS"
  /\ testResults[4].status = "fail"
  /\ testResults[5].test = "Surgery Plans RLS"
  /\ testResults[5].status = "pass"

----------------------------------------------------------------------------
(* Properties of the provider layout *)

\* C8: provider screens are rendered only for a session that has a user and
\* whose profile role is nurse, coordinator, admin or sales; a session
\* without a user is redirected to sign-in and a session whose role is not a
\* provider role is redirected to the patient tabs.
C8_ProviderGate ==
  /\ (InProvider /\ providerView = "ProviderScreens") =>
        /\ user # NoUser
        /\ ~profile.isNull
        /\ profile.role \in {"nurse", "coordinator", "admin", "sales"}
  /\ (providerView = "Redirect:/(auth)/sign-in") =>
        /\ user = NoUser
        /\ route = "/(auth)/sign-in"
  /\ (providerView = "Redirect:/(tabs)") =>
        /\ user # NoUser
        /\ profile.role \notin {"nurse", "coordinator", "admin", "sales"}
        /\ route = "/(tabs)"

(* Properties of the data screens *)

\* the error card: the screen holds an error state and renders it
ErrorShown(v) == "error" \in DOMAIN v /\ ~v.error.isNull

\* C11: once a call of a data screen's load has come back failed, the screen
\* holds an error state that it shows to the user
C11_FailedCallShowsError ==
  (mounted \in DataScreens /\ event.step = "reply" /\ event.reply.status # "ok")
    => ErrorShown(view)

\* C12: a data screen that is in its loading state leaves it, whatever each
\* of its requests comes back with
C12_LoadingEnds ==
  (mounted \in DataScreens /\ view.loading) ~> ~view.loading

\* the last request of a mount load has failed and the spinner is gone
C12_Witness ==
  /\ mounted \in DataScreens
  /\ event.step = "reply"
  /\ event.reply.status # "ok"
  /\ event.ended
  /\ ~view.loading

\* C13: a request is issued at most once per mount, refresh or submission.
\* A load never holds the same request twice; a load starts only in the
\* mount effect or in onRefresh; after a failed reply the load goes on with
\* what it had in flight and issues nothing; an auth call is issued only by a
\* submission and the handler that settles it leaves no call behind.
C13_IssuedOnce ==
  [][/\ \A L \in BagToSet(loads') : \A q \in BagToSet(L.issued) :
          CopiesIn(q, L.issued) = 1
     /\ BagCardinality(loads') > BagCardinality(loads)
          => event'.step \in {"mount", "onRefresh"}
     /\ (event'.step = "reply" /\ event'.reply.status # "ok")
          => \E L \in BagToSet(loads) :
               LET rest == loads (-) SetToBag({L})
                   left == L.pending \ {event'.call}
               IN /\ event'.call \in L.pending
                  /\ \/ left = {} /\ loads' = rest
                     \/ \E L2 \in BagToSet(loads') :
                          /\ loads' = rest (+) SetToBag({L2})
                          /\ L2.pending = left
                          /\ L2.issued = L.issued
     /\ (authCall' # authCall /\ authCall' # NoCall)
          => lastStep' \in {"handleSignIn", "handleSignUp"}
     /\ lastStep' \in {"signInSettled", "signUpSettled"} => authCall' = NoCall
    ]_vars

\* a request of a load has failed, the load is over and nothing is in flight
C13_Witness ==
  /\ mounted \in ListScreens
  /\ event.step = "reply"
  /\ event.reply.status # "ok"
  /\ loads = EmptyBag

(* Properties of the patient list *)

\* two letters that differ at most in case
SameLetter(a, b) ==
  \/ a = b
  \/ {a, b} = {"a", "A"}
  \/ {a, b} = {"b", "B"}

\* text holds query as a run of letters, case aside
ContainsIgnoringCase(text, query) ==
  \E i \in 0..(Len(text) - Len(query)) :
     \A j \in 1..Len(query) : SameLetter(text[i + j], query[j])

\* the places of the rows of patients that the query and the region keep
Kept(patients, query, region) ==
  {i \in 1..Len(patients) :
     /\ \/ ContainsIgnoringCase(patients[i].full_name, query)
        \/ ContainsIgnoringCase(patients[i].email, query)
     /\ region = "all" \/ patients[i].region = region}

\* C14: filteredPatients is the rows of patients whose name or email holds
\* the search text, case aside, and whose region is the selected one when a
\* region is selected; the rows are in the order they have in patients
C14_FilteredPatients ==
  mounted = "patients" =>
    LET kept == Kept(view.patients, view.searchQuery, view.selectedRegion)
    IN /\ Len(view.filteredPatients) = Cardinality(kept)
       /\ \A i \in kept :
            view.filteredPatients[Cardinality({j \in kept : j <= i})]
              = view.patients[i]

\* a query in another case than the name it finds, a region selected, and a
\* row dropped
C14_Witness ==
  /\ mounted = "patients"
  /\ view.searchQuery = <<"a", "B">>
  /\ view.selectedRegion = "AU"
  /\ Len(view.patients) = MaxPatients
  /\ Len(view.filteredPatients) = 1
  /\ view.filteredPatients[1].full_name = <<"A", "b">>

(* Properties of the analytics groupings *)

\* the rows the grouping loader fetched
FetchedRows == groupInput.rows

\* what a row is grouped by: its status, its region, or the year and month
\* of its created_at
GroupKey(row) ==
  IF groupInput.loader = "loadPlanStats" THEN row.status
  ELSE IF groupInput.loader = "loadRegionStats" THEN row.region
  ELSE <<row.created_at.iso.year, row.created_at.iso.month>>

\* the grouping the loader has set
Grouping ==
  IF groupInput.loader = "loadPlanStats" THEN analytics.plansByStatus
  ELSE IF groupInput.loader = "loadRegionStats" THEN analytics.patientsByRegion
  ELSE analytics.monthlyRegistrations

\* the rows that belong to an entry of the grouping
RowsOf(entry) ==
  {j \in 1..Len(FetchedRows) :
     IF groupInput.loader = "loadPlanStats"
     THEN FetchedRows[j].status = entry.status
     ELSE IF groupInput.loader = "loadRegionStats"
     THEN FetchedRows[j].region = entry.region
     ELSE /\ MonthShort[FetchedRows[j].created_at.iso.month] = entry.month[1]
          /\ FetchedRows[j].created_at.iso.year = entry.month[2]}

RECURSIVE SumOfCounts(_)
SumOfCounts(entries) ==
  IF entries = <<>> THEN 0
  ELSE Head(entries).count + SumOfCounts(Tail(entries))

\* C15: a grouping has one entry for every distinct key among the fetched
\* rows and no other entry, the count of an entry is the number of fetched
\* rows with its key, and the counts add up to the number of fetched rows
C15_Groupings ==
  (groupInput # NoGroupInput /\ analyticsPc = "done") =>
    /\ Len(Grouping)
         = Cardinality({GroupKey(FetchedRows[j]) : j \in 1..Len(FetchedRows)})
    /\ \A i \in 1..Len(Grouping) :
         /\ RowsOf(Grouping[i]) # {}
         /\ Grouping[i].count = Cardinality(RowsOf(Grouping[i]))
         /\ \A k \in 1..Len(Grouping) :
              RowsOf(Grouping[k]) = RowsOf(Grouping[i]) => k = i
    /\ \A j \in 1..Len(FetchedRows) :
         \E i \in 1..Len(Grouping) : j \in RowsOf(Grouping[i])
    /\ SumOfCounts(Grouping) = Len(FetchedRows)

\* plans grouped: a status that two rows share around a completed plan
C15_Witness ==
  /\ groupInput.loader = "loadPlanStats"
  /\ analyticsPc = "done"
  /\ Len(FetchedRows) >= 3
  /\ FetchedRows[1].status = "planning"
  /\ FetchedRows[2].status = "completed"
  /\ FetchedRows[3].status = "planning"
  /\ analytics.plansByStatus[1] = [status |-> "planning", count |-> 2]
  /\ analytics.plansByStatus[2] = [status |-> "completed", count |-> 1]

(* Properties of the parallel analytics loaders *)

\* the fields of the analytics state that a loader writes
FieldsOf(loader) ==
  IF loader = "loadPatientStats" THEN {"totalPatients"}
  ELSE IF loader = "loadPlanStats" THEN {"activePlans", "plansByStatus"}
  ELSE IF loader = "loadTaskStats"
  THEN {"completedTasks", "overdueTasks", "taskCompletionRate"}
  ELSE IF loader = "loadRegionStats" THEN {"patientsByRegion"}
  ELSE {"monthlyRegistrations"}

\* what a loader alone makes of the reply it received
ResultOf(loader) ==
  IF loader \in awaited THEN InitialAnalytics
  ELSE LoaderReturned(InitialAnalytics, loader, received[loader], clock)

\* C16: in whatever order the replies of the five loaders arrive, the
\* analytics state holds in the fields of every loader that has ended what
\* that loader made of its own reply, and the fields of a loader still
\* awaiting are as constructed; so with all five ended no field was
\* overwritten or lost
C16_OrderIndependent ==
  /\ DOMAIN analytics = UNION {FieldsOf(l) : l \in Loaders}
  /\ \A l \in Loaders : \A f \in FieldsOf(l) :
       analytics[f] = ResultOf(l)[f]

\* all five have ended, each with rows or a count, and every loader's fields
\* hold a result
C16_Witness ==
  /\ awaited = {}
  /\ \A l \in Loaders : received[l].status = "ok"
  /\ analytics.totalPatients = 2
  /\ analytics.plansByStatus # <<>>
  /\ analytics.overdueTasks = 1
  /\ analytics.patientsByRegion # <<>>
  /\ analytics.monthlyRegistrations # <<>>

(* Properties of the policy evaluation *)

\* the frames under way
FramesUnderWay == {evalStack[i] : i \in 1..Len(evalStack)}

\* C17: evaluating a policy of profiles never reads profiles under its
\* policies and never enters a policy that is already under way, and it
\* returns: the deepest evaluation is statement, policy, function, and the
\* function's read of auth.users as its owner
C17_PolicyEvaluationAcyclic ==
  /\ \A f \in FramesUnderWay : ~(f.kind = "read" /\ f.name = "profiles")
  /\ \A i, j \in 1..Len(evalStack) :
       (evalStack[i].kind = "policy" /\ evalStack[j] = evalStack[i]) => i = j
  /\ Len(evalStack) <= 4
  /\ Len(evalStack) = 4 => Evaluates(evalStack[4]) = {}

\* a provider policy under way down to the read inside is_provider
C17_Witness ==
  evalStack = <<Frame("statement", "profiles", "SELECT"),
                Frame("policy", "Providers can read all profiles", "SELECT"),
                Frame("function", "is_provider", "SELECT"),
                Frame("ownerRead", "auth.users", "SELECT")>>

(* Properties of the loads of the data screens *)

\* C18: a load clears its indicator only when none of its requests is still
\* in flight, and no reply to a request of a load sets view state after that
\* load has cleared its indicator
C18_NoResultAfterIndicatorCleared ==
  mounted \in DataScreens =>
    /\ \A L \in BagToSet(loads) : L.done => L.pending = {}
    /\ ~(event.step = "reply" /\ event.late /\ event.applied)

\* the 'No Surgery Plan Yet' card
EmptyCardShown(v) == v.surgeryPlan.isNull /\ v.error.isNull

\* C19: on the timeline error is null once a load has started; once a load
\* has finished error is the generic message if a request of that load
\* failed and null if none did; the error card and the 'No Surgery Plan Yet'
\* card are never shown together.  A load finishes with the first reply that
\* fails or with its last reply.
C19_ErrorReflectsLoad ==
  mounted = "timeline" =>
    /\ event.step \in {"mount", "onRefresh"} => view.error = NoError
    /\ (event.step = "reply" /\ event.ended) =>
         view.error = IF event.reply.status # "ok" THEN FailedToLoadTimeline
                      ELSE NoError
    /\ ~(ErrorShown(view) /\ EmptyCardShown(view))

\* the loaders that set rows of the mounted list screen
RowLoaders ==
  IF mounted = "timeline"
  THEN {"loadSurgeryPlan", "loadRecoveryTasks", "loadDocuments"}
  ELSE {"loadPatients"}

\* the rows the screen displays for a loader
ShownFor(v, loader) ==
  IF loader = "loadPatients" THEN v.patients
  ELSE IF loader = "loadDocuments" THEN v.documents
  ELSE IF loader = "loadRecoveryTasks" THEN v.recoveryTasks
  ELSE IF v.surgeryPlan.isNull THEN <<>>
  ELSE <<[id |-> v.surgeryPlan.id]>>

\* the reply has rows that its loader sets: the select succeeded, and for the
\* surgery plan it found one
CarriesRows(c, r) ==
  /\ r.status = "ok"
  /\ c.call = "loadSurgeryPlan" => r.data.rows # <<>>

\* C20 as stated: after a refresh on top of a load in flight, once every
\* request has been answered the screen displays, for the request answered
\* last, the rows of that answer
C20_LastArrivedIsDisplayed ==
  (mounted \in ListScreens /\ event.step = "reply" /\ event.overlapped
     /\ loads = EmptyBag)
    => ShownFor(view, event.call.call) = event.reply.data.rows

\* C20: onRefresh starts a load of its own next to those in flight, which it
\* leaves as they are; a reply that carries rows sets them when it arrives
\* and touches nothing else that is displayed; a failed reply, and a surgery
\* plan reply without a plan, leaves what is displayed as it is
C20_RepliesAppliedOnArrival ==
  [][(mounted \in ListScreens) =>
       (/\ event'.step = "onRefresh" =>
             loads' = loads (+) SetToBag({NewLoad("onRefresh",
                                                  FirstCalls(mounted))})
        /\ event'.step = "reply" =>
             (/\ \E L \in BagToSet(loads) : event'.call \in L.pending
              /\ \A l \in RowLoaders :
                   ShownFor(view', l) =
                     (IF l = event'.call.call
                         /\ CarriesRows(event'.call, event'.reply)
                      THEN event'.reply.data.rows
                      ELSE ShownFor(view, l))))
    ]_vars

\* two loads of the patient list were in flight together, every request has
\* been answered, the last answer was the one row of a successful select
C20_Witness ==
  /\ mounted = "patients"
  /\ event.step = "reply"
  /\ event.overlapped
  /\ loads = EmptyBag
  /\ event.reply.status = "ok"
  /\ Len(event.reply.data.rows) = 1
  /\ view.patients = event.reply.data.rows

----------------------------------------------------------------------------
(* Properties of runAllTests *)

\* runAllTests has come to its three later tests
PastSignBackIn ==
  runPc \in {"patientRLS", "providerRLS", "dataManipulation", "insertOwn",
             "deleteOwn", "insertOther", "done"}

\* C21: in every run of runAllTests in which testBasicAuth has signed the
\* session out, a sign-in has been issued and awaited before the patient RLS,
\* provider RLS and data manipulation tests run, and each of the three tests
\* that has run met an authenticated session.
C21_TestsRunSignedIn ==
  (ran.viaRunAll /\ ran.signedOut) =>
    /\ PastSignBackIn => ran.signedBackIn
    /\ \A t \in RunTests : ran.tests[t] \in {"notRun", "authenticated"}

\* C23: whenever testDataManipulation's insert of a test document succeeded,
\* the document has been deleted by its id once the test continues, so from
\* the second insert on, and after the test completes, no documents row
\* created by the test remains in the backend.
C23_NoTestDocumentRemains ==
  runPc \in {"insertOther", "done"} => docRows = {}

----------------------------------------------------------------------------
(* Properties of the route gates *)

\* C22: whenever auth loading has finished and no user is present, the index
\* route, the tabs layout and the provider layout each return a Redirect to
\* '/(auth)/sign-in' and none of their routes is on top; in no reachable
\* state are the tabs or the provider screens rendered without a user; and
\* while auth loading is in progress the root layout and the index route
\* render only the spinner.
C22_GatesRedirect ==
  /\ (~authLoading /\ user = NoUser) =>
       /\ Index(authLoading, user) = "Redirect:/(auth)/sign-in"
       /\ TabLayout(user) = "Redirect:/(auth)/sign-in"
       /\ ProviderLayoutRender(user, profile) = "Redirect:/(auth)/sign-in"
       /\ route \notin GatedRoutes
       /\ onScreen \in {"SignInScreen", "SignUpScreen"}
  /\ onScreen \in {"Tabs", "ProviderScreens"} => user # NoUser
  /\ authLoading =>
       /\ RootLayoutContent(authLoading) = "LoadingSpinner"
       /\ Index(authLoading, user) = "LoadingSpinner"
       /\ onScreen = "LoadingSpinner"

\* loading has finished with no user and a provider route on top:
\* ProviderLayout has returned its Redirect and the sign-in screen is shown
C22_Witness ==
  /\ ~authLoading
  /\ user = NoUser
  /\ providerView = "Redirect:/(auth)/sign-in"
  /\ route = SIGN_IN
  /\ onScreen = "SignInScreen"

----------------------------------------------------------------------------
(* Properties of the provider dashboard *)

\* the recovery tasks of type 'appointment' that are not completed and
\* whose due date lies between now and seven days after it
DueWithinSevenDays(rows, now) ==
  {i \in 1..Len(rows) :
     /\ rows[i].task_type = "appointment"
     /\ rows[i].completed = FALSE
     /\ now <= NewDate(rows[i].due_date)
     /\ NewDate(rows[i].due_date) <= now + DaysAhead}

\* C24: when loadStats has set stats from counts the backend returned, the
\* dashboard's upcoming-appointments count equals the number of recovery
\* tasks of type 'appointment' that are not completed and whose due date
\* lies between the current time and seven days after it.
C24_UpcomingAppointmentsCount ==
  (event.step = "reply" /\ event.call.call = "loadStats"
     /\ event.reply.status = "ok") =>
    view.stats.upcomingAppointments
      = Cardinality(DueWithinSevenDays(taskTable, clock))

----------------------------------------------------------------------------
(* Properties of the auth forms: the sign-up request and the loading flag *)

\* C25: every signUp call the sign-up screen issues carries role 'patient'
\* and region 'AU', whatever was typed into the form.
C25_SignUpRoleAndRegion ==
  authCall.fn = "signUp" =>
    /\ authCall.role = "patient"
    /\ authCall.region = "AU"

\* a signUp call is in flight for a form that passed validation with the
\* name 'n' typed between blanks
C25_Witness ==
  /\ authPc = "awaiting"
  /\ authCall.fn = "signUp"
  /\ authCall.full_name = <<"n">>
  /\ fullName = <<" ", "n", " ">>

\* C28: on the sign-in and sign-up forms, from the start of a validated
\* submission until its auth call settles loading is true and the submit
\* button, disabled by it, starts no handler; loading is false again after
\* every outcome (success, returned error, thrown exception); so no call is
\* issued while one is in flight.
C28_LoadingWhileInFlight ==
  /\ authPc = "awaiting" <=> loading
  /\ authPc = "awaiting" <=> authCall # NoCall
  /\ loading => ~ENABLED HandleSignIn /\ ~ENABLED HandleSignUp
  /\ lastStep \in {"signInSettled", "signUpSettled"} =>
       ~loading /\ authResponse.kind \in {"ok", "error", "throw"}

\* a call of a form has settled with an exception, loading went back to
\* false, and the next validated submission is in flight with loading true
C28_Witness ==
  /\ authResponse.kind = "throw"
  /\ lastStep \in {"handleSignIn", "handleSignUp"}
  /\ authPc = "awaiting"
  /\ loading

----------------------------------------------------------------------------
(* Properties of the timeline screen: the plan and its tasks *)

\* C26: in every reachable state of the timeline screen, between the steps
\* of a refresh and after a refresh in which a request failed included,
\* every displayed recovery task has surgery_plan_id equal to the id of the
\* displayed surgery plan.
C26_TasksBelongToDisplayedPlan ==
  mounted = "timeline" =>
    \A i \in 1..Len(view.recoveryTasks) :
       /\ ~view.surgeryPlan.isNull
       /\ view.recoveryTasks[i].surgery_plan_id = view.surgeryPlan.id

\* C27: when a timeline load (mount or refresh) has completed without error,
\* the displayed surgery plan is the first, most recently created, plan the
\* backend returned in that load, and no surgery plan and no recovery tasks
\* are displayed when it returned zero plans, whatever an earlier load had
\* displayed. A load's last reply tells what its plans select returned when
\* it is the reply of that select, which then held no plan, or the reply of
\* the tasks select, which was issued for the id of the plan returned.
C27_DisplayedPlanIsOfTheLoad ==
  (/\ mounted = "timeline"
   /\ event.step = "reply"
   /\ event.ended
   /\ event.reply.status = "ok") =>
    /\ event.call.call = "loadSurgeryPlan" =>
         /\ view.surgeryPlan.isNull
         /\ view.recoveryTasks = <<>>
    /\ event.call.call = "loadRecoveryTasks" =>
         /\ ~view.surgeryPlan.isNull
         /\ view.surgeryPlan.id = event.call.arg[1]

====
